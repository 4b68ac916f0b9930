------------------------------ MODULE Executor ------------------------------
(***************************************************************************)
(* The agent executor of one worker node (core/agent_executor.py): its     *)
(* poll cycle, the children it spawns, the spawn records it persists, the  *)
(* per-lane queues and the reports it owes to main.                        *)
(*                                                                         *)
(* One thread runs the cycle; main's rows, the children and the network    *)
(* change under it.  A step of the cycle is one request to main, one write *)
(* of the local store, one Popen, or a stretch of memory operations        *)
(* between them; the process may die between any two steps.                *)
(*                                                                         *)
(* Main is reduced to what this node sees of a task: "away" stands for     *)
(* every open status under which the task is not running here.  Clocks     *)
(* (backoffs, spawn_timeout, grace windows) are choices: a deadline may    *)
(* have passed or not.  A second executor for the same node id is excluded *)
(* by core/single_instance.py, so the cached ids are the store's.          *)
(***************************************************************************)
EXTENDS Naturals, FiniteSets, Sequences

CONSTANTS
    Tasks,
    Lanes, Lane, NoLane,    \* Lane[t] is the task's lane_key
    Modes,                  \* worker modes: TRUE "hermes", FALSE "bdaya-dispatch"
    MaxConcurrent,          \* max_concurrent
    QueueLimit,             \* _LANE_QUEUE_LIMIT
    MaxRetries,             \* _LANE_BUSY_MAX_RETRIES
    MaxAttempts,            \* _REPORT_MAX_ATTEMPTS
    Ends,                   \* how children may end
    Faults,                 \* what else may happen
    MaxLosses,              \* bound on requests or replies lost
    MaxCrashes,             \* bound on executor restarts
    NoTask

ASSUME ExecutorAssumption ==
    /\ IsFiniteSet(Tasks)
    /\ Lane \in [Tasks -> Lanes \cup {NoLane}] /\ NoLane \notin Lanes
    /\ Modes \subseteq BOOLEAN
    /\ MaxConcurrent \in Nat \ {0} /\ QueueLimit \in Nat /\ MaxRetries \in Nat
    /\ MaxAttempts \in Nat \ {0, 1} /\ MaxLosses \in Nat /\ MaxCrashes \in Nat
    /\ Faults \subseteq {"cancel", "recover", "again", "disk", "timeout", "popen",
                         "elsewhere", "idle"}
    /\ NoTask \notin Tasks

VARIABLES
    native,     \* the mode of this worker, fixed by its configuration
    main,       \* the task's row on main, as far as it concerns this node
    spawn,      \* _active_spawns: not there, with a Popen handle, re-attached
    child,      \* the child of the tracked spawn
    stray,      \* tasks with a live child nobody tracks
    records,    \* the task_spawns table
    fifo,       \* _lane_queue
    released,   \* _lane_released
    busy,       \* refusals counted in _lane_queue_meta
    cooling,    \* tasks whose backoff deadline has not passed
    pending,    \* _pending_reports: attempts, 0 when there is none
    placed,     \* the lanes table: no row, this node, another node
    at,         \* the poll loop's place and its locals
    losses, crashes,
    sound       \* history: tasks a child of which exited 0 with a result

vars == <<native, main, spawn, child, stray, records, fifo, released, busy, cooling,
          pending, placed, at, losses, crashes, sound>>

Verbs == {"complete", "fail", "block", "requeue", "release"}
Retried == {"complete", "fail"}          \* the verbs of _queue_report
Exits == {"good",       \* rc 0, a deliverable (or a transcript to promote)
          "asks",       \* rc 0, a deliverable and an escalation
          "junk",       \* rc 0, a body that is no deliverable
          "nothing",    \* rc 0, nothing delivered
          "refused",    \* rc # 0, hermes says the lane is busy
          "partial",    \* rc # 0, something written
          "crashed"}    \* rc # 0, nothing written

ASSUME EndsAssumption == Ends \subseteq Exits

Outcomes == {"done", "blocked", "non_deliverable", "lane_busy_refused", "failure"}

PCs == {"poll", "sweep", "sweep_drop", "sweep_ack", "reap", "resolve", "drop", "report",
        "drain", "post", "lanes", "queues", "renew", "claim", "released", "candidates",
        "spawn", "track"}

Poll == [pc |-> "poll", task |-> NoTask, verb |-> "none", todo |-> {}, due |-> {},
         found |-> <<>>, budget |-> 0, then |-> "poll"]

TypeOK ==
    /\ native \in Modes
    /\ main \in [Tasks -> {"new", "away", "running", "cancel_requested",
                           "cancelled", "completed", "failed"}]
    /\ spawn \in [Tasks -> {"none", "own", "resumed"}]
    /\ child \in [Tasks -> {"none", "live"} \cup Exits]
    /\ stray \subseteq Tasks /\ records \subseteq Tasks /\ cooling \subseteq Tasks
    /\ sound \subseteq Tasks
    /\ fifo \in [Lanes -> Seq(Tasks)] /\ released \in [Lanes -> Seq(Tasks)]
    /\ busy \in [Tasks -> 0..MaxRetries]
    /\ pending \in [Retried \X Tasks -> 0..(MaxAttempts - 1)]
    /\ placed \in [Lanes -> {"none", "here", "there"}]
    /\ at \in [pc : PCs, task : Tasks \cup {NoTask}, verb : Verbs \cup {"none"},
              todo : SUBSET Tasks, due : SUBSET (Retried \X Tasks),
              found : UNION {[S -> Outcomes] : S \in SUBSET Tasks},
              budget : 0..MaxConcurrent, then : {"poll", "resolve", "released", "candidates"}]
    /\ losses \in 0..MaxLosses /\ crashes \in 0..MaxCrashes

Init ==
    /\ native \in Modes
    /\ main = [t \in Tasks |-> "new"]
    /\ spawn = [t \in Tasks |-> "none"]
    /\ child = [t \in Tasks |-> "none"]
    /\ stray = {} /\ records = {} /\ cooling = {} /\ sound = {}
    /\ fifo = [k \in Lanes |-> <<>>] /\ released = [k \in Lanes |-> <<>>]
    /\ busy = [t \in Tasks |-> 0]
    /\ pending = [r \in Retried \X Tasks |-> 0]
    /\ placed = [k \in Lanes |-> "none"]
    /\ at = Poll
    /\ losses = 0 /\ crashes = 0

----------------------------------------------------------------------------
(* Main, as the executor's requests meet it *)

(* What the handler of the request does to the row, and whether it answers *)
(* with success; a request the handler refuses looks to _signed_request    *)
(* like one that failed.                                                   *)
Accepts(verb, t) ==
    CASE verb \in {"complete", "fail", "requeue"} ->
            main[t] \notin {"completed", "failed", "cancelled"}
      [] verb = "block" -> main[t] \in {"away", "running"}
      [] verb = "release" -> main[t] = "running"

Applied(verb, t) ==
    IF main[t] = "cancel_requested" THEN {"cancelled"}
    ELSE CASE verb = "complete" -> {"completed"}
           [] verb = "fail" -> {"failed"}
           [] verb = "requeue" -> {"away", "failed"}   \* failed at the retry cap
           [] verb \in {"block", "release"} -> {"away"}

(* _signed_request: the request is answered, or it or its answer is lost.  *)
Exchange(verb, t, got) ==
    \/ /\ Accepts(verb, t) /\ got
       /\ \E s \in Applied(verb, t) : main' = [main EXCEPT ![t] = s]
       /\ UNCHANGED losses
    \/ ~Accepts(verb, t) /\ ~got /\ UNCHANGED <<main, losses>>
    \/ /\ losses < MaxLosses /\ ~got
       /\ losses' = losses + 1
       /\ \/ UNCHANGED main
          \/ Accepts(verb, t) /\ \E s \in Applied(verb, t) : main' = [main EXCEPT ![t] = s]

(* A read that fails *)
Unread == losses < MaxLosses /\ losses' = losses + 1

----------------------------------------------------------------------------
(* Reads of the executor's memory *)

Tracked == {t \in Tasks : spawn[t] # "none"}
Elements(q) == {q[i] : i \in 1..Len(q)}
Queued == UNION {Elements(fifo[k]) \cup Elements(released[k]) : k \in Lanes}
LaneBusy(k) == \E t \in Tracked : Lane[t] = k      \* _lane_has_active_delivery

(* Mutant: the kill of a timed-out or cancelled child left out. *)
Mut_Killable(t) == ~native /\ spawn[t] = "own"

(* _kill_spawn_process reaches a child only through the handle of the      *)
(* Popen that started it; a bdaya-dispatch lane has long left that process.*)
Killable(t) == native /\ spawn[t] = "own"

(* Mutant: a body on file taken for a delivery whatever the exit code. *)
Mut_Outcome(t) ==
    CASE child[t] \in {"good", "partial"} -> "done"
      [] child[t] = "asks" -> "blocked"
      [] child[t] = "junk" -> "non_deliverable"
      [] native /\ child[t] = "refused" /\ Lane[t] # NoLane -> "lane_busy_refused"
      [] OTHER -> "failure"

(* What the reap reads of an exit: its code, the body in the result file   *)
(* after the sentinel, whether that body is a provider error or the brief  *)
(* echoed back (#870), the escalation beside it, and the refusal on stderr.*)
ExitedZero(e) == e \in {"good", "asks", "junk", "nothing"}
_read_result_body(e) == e \in {"good", "asks", "junk", "partial"}
classify_non_deliverable(e) == e = "junk"
_escalation_ballot(e) == e = "asks"
_refusal_reason(e) == e = "refused"

(* The child as the poll of its process shows it: a re-attached one has no *)
(* exit code and reads as 0 (_ResumedProcess.poll).  Refusals are read of  *)
(* native children only.                                                   *)
Outcome(t) ==
    LET e == child[t]
        zero == ExitedZero(e) \/ (native /\ spawn[t] = "resumed")
    IN CASE zero /\ _read_result_body(e) ->
               IF classify_non_deliverable(e) THEN "non_deliverable"
               ELSE IF _escalation_ballot(e) THEN "blocked" ELSE "done"
         [] native /\ ~zero /\ _refusal_reason(e) /\ Lane[t] # NoLane -> "lane_busy_refused"
         [] OTHER -> "failure"

Goto(pc) == at' = [at EXCEPT !.pc = pc]

(* Forget t; a child that is still alive is then nobody's. *)
Forget(t, killed) ==
    /\ spawn' = [spawn EXCEPT ![t] = "none"]
    /\ child' = [child EXCEPT ![t] = "none"]
    /\ stray' = IF child[t] = "live" /\ ~killed THEN stray \cup {t} ELSE stray

(* _queue_for_lane: the tail of the lane's queue, unless it is full or     *)
(* holds the task already; a task refused n times waits for its backoff.   *)
Full(k) == Len(fifo[k]) >= QueueLimit

_queue_for_lane(t, n) ==
    IF Full(Lane[t]) \/ t \in Elements(fifo[Lane[t]])
    THEN UNCHANGED <<fifo, busy, cooling>>
    ELSE /\ fifo' = [fifo EXCEPT ![Lane[t]] = Append(@, t)]
         /\ busy' = [busy EXCEPT ![t] = n]
         /\ cooling' = IF n > 0 THEN cooling \cup {t} ELSE cooling \ {t}

----------------------------------------------------------------------------
(* 1. _reap_finished_spawns *)

AtReap == IF Tracked = {} THEN "drain" ELSE "reap"

PollOnce ==
    /\ at.pc = "poll"
    /\ at' = IF Tracked = {} THEN [Poll EXCEPT !.pc = "drain"]
             ELSE [Poll EXCEPT !.pc = "sweep", !.todo = Tracked]
    /\ UNCHANGED <<main, spawn, child, stray, records, fifo, released, busy,
                   cooling, pending, placed, losses, crashes, sound>>

(* _sweep_cancelled_spawns: the row of each tracked task is read; for one  *)
(* that is being cancelled the child is killed and the spawn forgotten.    *)
SweepRead(t) ==
    /\ at.pc = "sweep" /\ t \in at.todo
    /\ \/ /\ main[t] \in {"cancelled", "cancel_requested"}
          /\ Forget(t, Killable(t))
          /\ at' = [at EXCEPT !.pc = "sweep_drop", !.task = t, !.todo = @ \ {t},
                      !.verb = IF main[t] = "cancel_requested" THEN "fail" ELSE "none"]
          /\ UNCHANGED losses
       \/ /\ \/ main[t] \notin {"cancelled", "cancel_requested"} /\ UNCHANGED losses
             \/ Unread
          /\ at' = [at EXCEPT !.todo = @ \ {t}]
          /\ UNCHANGED <<spawn, child, stray>>
    /\ UNCHANGED <<main, records, fifo, released, busy, cooling, pending, placed,
                   crashes, sound>>

SweepDrop ==
    /\ at.pc = "sweep_drop"
    /\ records' = records \ {at.task}
    /\ busy' = [busy EXCEPT ![at.task] = 0] /\ cooling' = cooling \ {at.task}
    /\ Goto(IF at.verb = "fail" THEN "sweep_ack" ELSE "sweep")
    /\ UNCHANGED <<main, spawn, child, stray, fifo, released, pending, placed,
                   losses, crashes, sound>>

(* The acknowledgement is sent once, whether it arrives or not. *)
SweepAck ==
    /\ at.pc = "sweep_ack"
    /\ \E got \in BOOLEAN : Exchange("fail", at.task, got)
    /\ Goto("sweep")
    /\ UNCHANGED <<spawn, child, stray, records, fifo, released, busy, cooling,
                   pending, placed, crashes, sound>>

SweepEnd ==
    /\ at.pc = "sweep" /\ at.todo = {}
    /\ Goto(AtReap)
    /\ UNCHANGED <<main, spawn, child, stray, records, fifo, released, busy,
                   cooling, pending, placed, losses, crashes, sound>>

(* A native child is seen as soon as it has exited; of a bdaya-dispatch    *)
(* lane the status query may fail, and an absent lane has a grace window.  *)
LanesSeen(over) == IF native THEN {over} ELSE SUBSET over

(* The outcome of every tracked spawn, under the lock.  A child past       *)
(* spawn_timeout is given up; a native one is killed first.                *)
Reap ==
    /\ at.pc = "reap"
    /\ LET live == {t \in Tracked : child[t] = "live"}
           over == Tracked \ live
       IN \E seen \in LanesSeen(over),
             late \in IF "timeout" \in Faults THEN SUBSET live ELSE {{}} :
            /\ at' = [at EXCEPT !.pc = "resolve",
                        !.found = [t \in seen \cup late |->
                                     IF t \in late THEN "failure" ELSE Outcome(t)]]
            /\ child' = [t \in Tasks |->
                           IF t \in late /\ Killable(t) THEN "none" ELSE child[t]]
    /\ UNCHANGED <<main, spawn, stray, records, fifo, released, busy, cooling,
                   pending, placed, losses, crashes, sound>>

VerbsOf(outcome) ==
    CASE outcome = "done" -> {"complete"}
      [] outcome = "blocked" -> {"block", "complete"}  \* "complete": ballot unreadable
      [] outcome = "non_deliverable" -> {"requeue"}
      [] outcome \in {"failure", "lane_busy_refused"} -> {"fail"}

(* A refused delivery goes back to the tail of its lane's queue while      *)
(* retries and room last (_requeue_busy_refusal).                          *)
Retriable(t) == /\ at.found[t] = "lane_busy_refused"
                /\ busy[t] < MaxRetries /\ ~Full(Lane[t])

(* One resolved spawn leaves the table; its record is dropped and its      *)
(* report sent in later steps.                                             *)
Resolved(t, verb) ==
    /\ at.pc = "resolve" /\ t \in DOMAIN at.found
    /\ Forget(t, FALSE)
    /\ at' = [at EXCEPT !.pc = "drop", !.task = t, !.verb = verb, !.then = "resolve",
                !.found = [u \in DOMAIN @ \ {t} |-> @[u]]]

RequeueBusyRefusal(t) ==
    /\ Resolved(t, "none") /\ Retriable(t)
    /\ _queue_for_lane(t, busy[t] + 1)
    /\ UNCHANGED <<main, records, released, pending, placed, losses, crashes, sound>>

(* A finished native delivery also renews its lane's row. *)
_touch_lane_from_spawn(t) == [placed EXCEPT ![Lane[t]] = "here"]

Resolve(t) ==
    /\ \E verb \in Verbs : /\ Resolved(t, verb) /\ ~Retriable(t)
                           /\ verb \in VerbsOf(at.found[t])
    /\ busy' = [busy EXCEPT ![t] = 0] /\ cooling' = cooling \ {t}
    /\ placed' = IF /\ native /\ at.found[t] \in {"done", "blocked"}
                    /\ Lane[t] # NoLane
                 THEN _touch_lane_from_spawn(t) ELSE placed
    /\ UNCHANGED <<main, records, fifo, released, pending, losses, crashes, sound>>

(* Mutant: the record of a re-queued refusal is kept. *)
Mut_Drop ==
    /\ at.pc = "drop"
    /\ records' = IF at.verb = "none" THEN records ELSE records \ {at.task}
    /\ Goto(IF at.verb = "none" THEN at.then ELSE "report")
    /\ UNCHANGED <<main, spawn, child, stray, fifo, released, busy, cooling,
                   pending, placed, losses, crashes, sound>>

(* _drop_persisted_spawn *)
Drop ==
    /\ at.pc = "drop"
    /\ records' = records \ {at.task}
    /\ Goto(IF at.verb = "none" THEN at.then ELSE "report")
    /\ UNCHANGED <<main, spawn, child, stray, fifo, released, busy, cooling,
                   pending, placed, losses, crashes, sound>>

(* Mutant: a report that cannot be delivered is dropped, as before #897. *)
Mut_Report ==
    /\ at.pc = "report" /\ at.verb \in Retried
    /\ \E got \in BOOLEAN : Exchange(at.verb, at.task, got)
    /\ Goto(at.then)
    /\ UNCHANGED <<spawn, child, stray, records, fifo, released, busy, cooling,
                   pending, placed, crashes, sound>>

(* _report_completion and _report_failure: sent, and queued when that fails. *)
Report ==
    /\ at.pc = "report" /\ at.verb \in Retried
    /\ \E got \in BOOLEAN :
         /\ Exchange(at.verb, at.task, got)
         /\ pending' = IF got THEN pending
                       ELSE [pending EXCEPT ![<<at.verb, at.task>>] = 1]
    /\ Goto(at.then)
    /\ UNCHANGED <<spawn, child, stray, records, fifo, released, busy, cooling,
                   placed, crashes, sound>>

(* Sent once: when main does not answer, the lease lapses and recovery     *)
(* takes the task.                                                         *)
ReportOnce(verb) ==
    /\ at.pc = "report" /\ at.verb = verb
    /\ \E got \in BOOLEAN : Exchange(verb, at.task, got)
    /\ Goto(at.then)
    /\ UNCHANGED <<spawn, child, stray, records, fifo, released, busy, cooling,
                   pending, placed, crashes, sound>>

_report_blocked == ReportOnce("block")
_requeue_task == ReportOnce("requeue")

ResolveEnd ==
    /\ at.pc = "resolve" /\ DOMAIN at.found = {}
    /\ Goto("drain")
    /\ UNCHANGED <<main, spawn, child, stray, records, fifo, released, busy,
                   cooling, pending, placed, losses, crashes, sound>>

----------------------------------------------------------------------------
(* 1a-2. Queued reports, idle lanes, lane queues, leases *)

(* _drain_pending_reports, for the reports whose backoff has elapsed. *)
DrainStart ==
    /\ at.pc = "drain"
    /\ \E due \in SUBSET {r \in DOMAIN pending : pending[r] > 0} :
         at' = [at EXCEPT !.pc = "post", !.due = due]
    /\ UNCHANGED <<main, spawn, child, stray, records, fifo, released, busy,
                   cooling, pending, placed, losses, crashes, sound>>

DrainPost(r) ==
    /\ at.pc = "post" /\ r \in at.due
    /\ \E got \in BOOLEAN :
         /\ Exchange(r[1], r[2], got)
         /\ pending' = [pending EXCEPT ![r] =
                          IF got \/ @ + 1 >= MaxAttempts THEN 0 ELSE @ + 1]
    /\ at' = [at EXCEPT !.due = @ \ {r}]
    /\ UNCHANGED <<spawn, child, stray, records, fifo, released, busy, cooling,
                   placed, crashes, sound>>

DrainEnd ==
    /\ at.pc = "post" /\ at.due = {}
    /\ Goto("lanes")
    /\ UNCHANGED <<main, spawn, child, stray, records, fifo, released, busy,
                   cooling, pending, placed, losses, crashes, sound>>

(* _reap_idle_lanes: the rows of lanes past lane_idle_timeout with nothing *)
(* in flight and nothing queued.                                           *)
ReapIdleLanes ==
    /\ at.pc = "lanes"
    /\ \E old \in IF "idle" \in Faults
                  THEN SUBSET {k \in Lanes : /\ ~LaneBusy(k)
                                             /\ fifo[k] = <<>> /\ released[k] = <<>>}
                  ELSE {{}} :
         placed' = [k \in Lanes |-> IF k \in old THEN "none" ELSE placed[k]]
    /\ Goto("queues")
    /\ UNCHANGED <<main, spawn, child, stray, records, fifo, released, busy,
                   cooling, pending, losses, crashes, sound>>

(* Mutant: the deadline compared the wrong way round. *)
Mut_ReleasableLate(k) == /\ ~LaneBusy(k)
                         /\ fifo[k] # <<>> /\ Head(fifo[k]) \in cooling

(* _sweep_lane_queues: the lanes whose queue gives up its head. *)
Releasable(k) == /\ ~LaneBusy(k)
                 /\ fifo[k] # <<>> /\ Head(fifo[k]) \notin cooling

SweepLaneQueues ==
    /\ at.pc = "queues"
    /\ fifo' = [k \in Lanes |-> IF Releasable(k) THEN Tail(fifo[k]) ELSE fifo[k]]
    /\ released' = [k \in Lanes |->
                      IF Releasable(k) THEN Append(released[k], Head(fifo[k]))
                      ELSE released[k]]
    /\ Goto("renew")
    /\ UNCHANGED <<main, spawn, child, stray, records, busy, cooling, pending,
                   placed, losses, crashes, sound>>

(* _renew_leases asks main to extend every tracked spawn's lease and       *)
(* ignores the answers; then the slots are counted.                        *)
Renew ==
    /\ at.pc = "renew"
    /\ LET n == Cardinality(Tracked)
       IN at' = IF n >= MaxConcurrent THEN Poll
                ELSE [at EXCEPT !.pc = "claim", !.budget = MaxConcurrent - n]
    /\ UNCHANGED <<main, spawn, child, stray, records, fifo, released, busy,
                   cooling, pending, placed, losses, crashes, sound>>

----------------------------------------------------------------------------
(* 3. _claim_and_spawn *)

(* The disk gate: below the floor the whole step is skipped. *)
Gate ==
    /\ at.pc = "claim"
    /\ \/ Goto("released")
       \/ "disk" \in Faults /\ at' = Poll
    /\ UNCHANGED <<main, spawn, child, stray, records, fifo, released, busy,
                   cooling, pending, placed, losses, crashes, sound>>

(* The released heads are spawned first, while the budget lasts. *)
SpawnReleased(k) ==
    /\ at.pc = "released" /\ at.budget > 0 /\ released[k] # <<>>
    /\ at' = [at EXCEPT !.pc = "spawn", !.task = Head(released[k]),
                !.budget = @ - 1, !.then = "released"]
    /\ released' = [released EXCEPT ![k] = Tail(@)]
    /\ UNCHANGED <<main, spawn, child, stray, records, fifo, busy, cooling,
                   pending, placed, losses, crashes, sound>>

(* Heads beyond the budget go back to the front of their queues. *)
Leftover ==
    /\ at.pc = "released" /\ at.budget = 0
    /\ fifo' = [k \in Lanes |-> released[k] \o fifo[k]]
    /\ released' = [k \in Lanes |-> <<>>]
    /\ at' = Poll
    /\ UNCHANGED <<main, spawn, child, stray, records, busy, cooling, pending,
                   placed, losses, crashes, sound>>

(* Mutant: queued tasks not filtered out. *)
Mut_Candidates == {t \in Tasks : main[t] = "running" /\ t \notin Tracked \cup records}

_is_assigned_to_me(t) == main[t] = "running"

Candidates == {t \in Tasks : /\ _is_assigned_to_me(t)
                             /\ t \notin Tracked \cup records \cup Queued}

(* The task list is read from main; with no answer the cycle ends. *)
Fetch ==
    /\ at.pc = "released" /\ at.budget > 0
    /\ \A k \in Lanes : released[k] = <<>>
    /\ \/ /\ at' = [at EXCEPT !.pc = "candidates", !.todo = Candidates]
          /\ UNCHANGED losses
       \/ Unread /\ at' = Poll
    /\ UNCHANGED <<main, spawn, child, stray, records, fifo, released, busy,
                   cooling, pending, placed, crashes, sound>>

(* One candidate: queued behind its busy lane (unless the queue is full),  *)
(* spawned while the budget lasts, left on the board otherwise.            *)
Candidate(t) ==
    /\ at.pc = "candidates" /\ t \in at.todo
    /\ LET next == [at EXCEPT !.todo = @ \ {t}]
       IN IF Lane[t] # NoLane /\ LaneBusy(Lane[t])
          THEN _queue_for_lane(t, 0) /\ at' = next
          ELSE /\ at' = IF at.budget = 0 THEN next
                        ELSE [next EXCEPT !.pc = "spawn", !.task = t,
                                !.budget = @ - 1, !.then = "candidates"]
               /\ UNCHANGED <<fifo, busy, cooling>>
    /\ UNCHANGED <<main, spawn, child, stray, records, released, pending, placed,
                   losses, crashes, sound>>

CandidatesEnd ==
    /\ at.pc = "candidates" /\ at.todo = {}
    /\ at' = Poll
    /\ UNCHANGED <<main, spawn, child, stray, records, fifo, released, busy,
                   cooling, pending, placed, losses, crashes, sound>>

(* _spawn_worker: the task of a lane placed on another node is handed back *)
(* to the board.                                                           *)
Misplaced(t) == Lane[t] # NoLane /\ placed[Lane[t]] = "there"

ReleaseMisplaced ==
    /\ at.pc = "spawn" /\ Misplaced(at.task)
    /\ \E got \in BOOLEAN : Exchange("release", at.task, got)
    /\ Goto(at.then)
    /\ UNCHANGED <<spawn, child, stray, records, fifo, released, busy, cooling,
                   pending, placed, crashes, sound>>

(* Only a native spawn looks at the lane once more and queues the task     *)
(* behind a delivery in flight (or leaves it, the queue being full).       *)
Guarded(t) == native /\ Lane[t] # NoLane /\ LaneBusy(Lane[t])

SpawnQueued ==
    /\ at.pc = "spawn" /\ ~Misplaced(at.task) /\ Guarded(at.task)
    /\ _queue_for_lane(at.task, busy[at.task])
    /\ Goto(at.then)
    /\ UNCHANGED <<main, spawn, child, stray, records, released, pending, placed,
                   losses, crashes, sound>>

(* Mutant: the lane not looked at again before the spawn. *)
Mut_Popen ==
    /\ at.pc = "spawn" /\ ~Misplaced(at.task)
    /\ child' = [child EXCEPT ![at.task] = "live"]
    /\ Goto("track")
    /\ UNCHANGED <<main, spawn, stray, records, fifo, released, busy, cooling,
                   pending, placed, losses, crashes, sound>>

(* Any other task gets a child: _spawn_bdaya_worker, _spawn_hermes_worker. *)
Popen ==
    /\ at.pc = "spawn" /\ ~Misplaced(at.task) /\ ~Guarded(at.task)
    /\ child' = [child EXCEPT ![at.task] = "live"]
    /\ Goto("track")
    /\ UNCHANGED <<main, spawn, stray, records, fifo, released, busy, cooling,
                   pending, placed, losses, crashes, sound>>

(* The binary is missing, or Popen raises. *)
PopenFailed ==
    /\ at.pc = "spawn" /\ ~Misplaced(at.task) /\ ~Guarded(at.task)
    /\ "popen" \in Faults
    /\ at' = [at EXCEPT !.pc = "report", !.verb = "fail"]
    /\ UNCHANGED <<main, spawn, child, stray, records, fifo, released, busy,
                   cooling, pending, placed, losses, crashes, sound>>

(* The spawn is tracked and persisted (_persist_spawn) once the child runs *)
(* and its lease has been asked for.                                       *)
Track ==
    /\ at.pc = "track"
    /\ LET t == at.task
       IN /\ spawn' = [spawn EXCEPT ![t] = "own"]
          /\ records' = records \cup {t}
          /\ placed' = IF Lane[t] = NoLane THEN placed
                       ELSE [placed EXCEPT ![Lane[t]] = "here"]
    /\ Goto(at.then)
    /\ UNCHANGED <<main, child, stray, fifo, released, busy, cooling, pending,
                   losses, crashes, sound>>

----------------------------------------------------------------------------
(* Around the executor *)

others == <<native, records, fifo, released, busy, pending, at>>

(* Main assigns a task to this node: for the first time, or again after it *)
(* was re-queued, answered or recovered.                                   *)
Assign(t) ==
    /\ \/ main[t] = "new"
       \/ main[t] = "away" /\ "again" \in Faults
    /\ main' = [main EXCEPT ![t] = "running"]
    /\ UNCHANGED <<spawn, child, stray, cooling, placed, losses, crashes, sound, others>>

(* An operator cancels: at once, or in two phases while a lease is live.   *)
Cancel(t) ==
    /\ "cancel" \in Faults /\ main[t] \in {"away", "running"}
    /\ \E s \in {"cancelled", "cancel_requested"} : main' = [main EXCEPT ![t] = s]
    /\ UNCHANGED <<spawn, child, stray, cooling, placed, losses, crashes, sound, others>>

(* Recovery takes a task away whose lease has lapsed. *)
Recover(t) ==
    /\ "recover" \in Faults /\ main[t] = "running"
    /\ main' = [main EXCEPT ![t] = "away"]
    /\ UNCHANGED <<spawn, child, stray, cooling, placed, losses, crashes, sound, others>>

(* A child ends. *)
Exit(t) ==
    /\ child[t] = "live"
    /\ \E e \in Ends :
         /\ child' = [child EXCEPT ![t] = e]
         /\ sound' = IF e \in {"good", "asks"} THEN sound \cup {t} ELSE sound
    /\ UNCHANGED <<main, spawn, stray, cooling, placed, losses, crashes, others>>

StrayExit(t) ==
    /\ t \in stray
    /\ stray' = stray \ {t}
    /\ UNCHANGED <<main, spawn, child, cooling, placed, losses, crashes, sound, others>>

(* A backoff deadline passes. *)
Cool(t) ==
    /\ t \in cooling
    /\ cooling' = cooling \ {t}
    /\ UNCHANGED <<main, spawn, child, stray, placed, losses, crashes, sound, others>>

(* Another node reports the lane to the store this executor shares. *)
LaneReported(k) ==
    /\ "elsewhere" \in Faults
    /\ placed' = [placed EXCEPT ![k] = "there"]
    /\ UNCHANGED <<main, spawn, child, stray, cooling, losses, crashes, sound, others>>

(* The executor dies and starts again: memory is gone, children live on,   *)
(* and every persisted record is re-attached (_reconcile_persisted_spawns).*)
Crash ==
    /\ crashes < MaxCrashes
    /\ crashes' = crashes + 1
    /\ spawn' = [t \in Tasks |-> IF t \in records THEN "resumed" ELSE "none"]
    /\ child' = [t \in Tasks |-> IF t \in records THEN child[t] ELSE "none"]
    /\ stray' = stray \cup {t \in Tasks \ records : child[t] = "live"}
    /\ fifo' = [k \in Lanes |-> <<>>] /\ released' = [k \in Lanes |-> <<>>]
    /\ busy' = [t \in Tasks |-> 0] /\ cooling' = {}
    /\ pending' = [r \in Retried \X Tasks |-> 0]
    /\ at' = Poll
    /\ UNCHANGED <<native, main, records, placed, losses, sound>>

Cycle ==
    /\ \/ PollOnce \/ SweepDrop \/ SweepAck \/ SweepEnd \/ Reap \/ Drop \/ Report
       \/ _report_blocked \/ _requeue_task \/ ResolveEnd \/ DrainStart \/ DrainEnd \/ ReapIdleLanes
       \/ SweepLaneQueues \/ Renew \/ Gate \/ Leftover \/ Fetch \/ CandidatesEnd
       \/ ReleaseMisplaced \/ SpawnQueued \/ Popen \/ PopenFailed \/ Track
       \/ \E t \in Tasks : \/ SweepRead(t) \/ RequeueBusyRefusal(t)
                           \/ Resolve(t) \/ Candidate(t)
       \/ \E r \in Retried \X Tasks : DrainPost(r)
       \/ \E k \in Lanes : SpawnReleased(k)
    /\ UNCHANGED native

Next ==
    \/ Cycle
    \/ \E t \in Tasks : Assign(t) \/ Cancel(t) \/ Recover(t) \/ Exit(t)
                        \/ StrayExit(t) \/ Cool(t)
    \/ \E k \in Lanes : LaneReported(k)
    \/ Crash

Spec == Init /\ [][Next]_vars

(* The poll loop keeps running, a backoff deadline passes, and a queued    *)
(* report comes due in some cycle (its backoff is capped).                 *)
DrainAll == /\ DrainStart /\ UNCHANGED native
            /\ at'.due = {r \in DOMAIN pending : pending[r] > 0}

Fairness ==
    /\ WF_vars(Cycle)
    /\ SF_vars(DrainAll)
    /\ \A t \in Tasks : WF_vars(Cool(t))

FairSpec == Spec /\ Fairness

----------------------------------------------------------------------------
(* Properties *)

(* Busy lanes queue (#858): no two deliveries of one lane are in flight.   *)
LaneSerial ==
    \A t, u \in Tracked : Lane[t] = Lane[u] /\ Lane[t] # NoLane => t = u

(* A task is in one place: in flight, or once in one queue.  Otherwise a   *)
(* poll rescan or a re-queue would deliver its brief twice.                *)
OnePlace ==
    /\ Tracked \cap Queued = {}
    /\ \A k, m \in Lanes :
         LET a == released[k] \o fifo[k]
             b == released[m] \o fifo[m]
         IN /\ Cardinality(Elements(a)) = Len(a)
            /\ k # m => Elements(a) \cap Elements(b) = {}

(* The persisted records are the tracked spawns whenever a cycle begins: a *)
(* record left behind would keep its task from ever being spawned again.   *)
RecordsTracked == at.pc = "poll" => records = Tracked

(* Restart safety (#804): a task never has two live children.              *)
NoDuplicateWorker == \A t \in stray : child[t] # "live"

(* #870: main's row says completed only if some child of the task ended    *)
(* with exit code 0 and a result.                                          *)
CompletedIsSound == \A t \in Tasks : main[t] = "completed" => t \in sound

(* #897: while a completion waits to be delivered, its task is not worked  *)
(* on again.                                                               *)
FinishedNotRedone ==
    \A t \in Tasks : pending[<<"complete", t>>] > 0 => child[t] # "live"

(* #897: when the outage is shorter than the retries, the result of a      *)
(* finished child reaches main.                                            *)
FinishedReported ==
    \A t \in Tasks : child[t] = "good" ~> main[t] # "running"

(* #898: a cancelled task's children are stopped. *)
CancelStops ==
    \A t \in Tasks :
        main[t] \in {"cancelled", "cancel_requested"} ~> child[t] # "live" /\ t \notin stray

(* #858, queues: if children end (spawn_timeout sees to it), a task        *)
(* assigned to this node is eventually worked on, or no longer this        *)
(* node's: no lane queue, backoff or budget forgets it.                    *)
Served ==
    (\A t \in Tasks : []<>(child[t] # "live")) =>
        \A t \in Tasks :
            main[t] = "running" ~> (main[t] # "running" \/ spawn[t] # "none")
=============================================================================
