# hermes-agent-cluster in TLA+

TLA+ models of hermes-agent-cluster, the TLC runs that check them on small
instances, and TLAPS proofs of their most important invariants for every size.
The models are translated from the Python source; `PROJECT.json` maps every
definition to its lines.

## The system

A *main* node keeps the board: tasks, leases, lanes (long-lived agent sessions)
and nodes, in a store (SQLite by default, Postgres or memory). *Workers* join,
send heartbeats, poll the tasks assigned to them, spawn an agent process per
task and report back. All communication is HTTP to main.

| Part | State | Operations | Interacts with |
|---|---|---|---|
| Task handlers (`routers/tasks.py`, `schedule.py`, `lanes.py`) | none of their own | submit, complete, fail, re-queue, cancel, block, answer, unblock, advance, set_dependencies, claim, release, trigger, report_lane | one store call after another; lease manager |
| SQLite store (`state/cluster_store.py`) | rows of tasks, leases, lanes, nodes, spawns | each method one transaction | everything |
| Scheduler (`core/scheduler.py`, `core/lane_affinity.py`) | round-robin cursor, loads of a pass | one pass of `schedule_pending` | called inside a store transaction |
| Lease manager (`lease/`) | a lock, callbacks | create, revoke, extend; scanner thread | store, recovery |
| Recovery (`recovery/`) | – | detect expired leases, revoke, reschedule; auto-recovery thread | store, scheduler |
| Node registry (`core/node_manager.py`, `routers/nodes.py`, `core/watchdog.py`) | node rows | join, heartbeat, PATCH capabilities; watchdog thread | scheduler reads the status |
| Worker connector (`core/worker_connector.py`), single-instance lock | `registered_id`, declared capabilities | probe, join, beat | node registry over HTTP |
| Agent executor (`core/agent_executor.py`) | tracked spawns, spawn records, lane queues, pending reports | the poll cycle | main over HTTP, child processes |
| Other stores (`state/__init__.py`, `state/postgres_store.py`) | the same tables, with other locks | the same methods | everything |
| Intake (`routers/intake.py`, `core/intake_*.py`) | maps of issues to tasks, the policy | poll, webhook, manual poll, put_policy | GitLab; creates tasks |
| Gates (`core/landing_gate.py`, `core/reviewer_gate.py`, ballots) | none: they read all rows | hold or release a landing, refuse a review | called by submit, complete, block, answer, the sweep |
| Watchers (`core/release_drift*.py`, `core/metering.py`) and hooks | alert keys, episodes, samples | poll thread, supervisor, manual poll; emit | GitHub, billing API, web hooks |
| Federation sync (`sync/`) | queues and versions | events and snapshots to peers | the peer's store |

What is hard about it:

* **Threads against handlers.** Handlers are coroutines without `await`, so they
  exclude each other; but every store call commits, and the lease scanner,
  auto-recovery, the watchdog and pollers run between any two calls of a handler.
* **Crashes.** Main dies between two transactions, an executor between Popen and
  its spawn record.
* **Unreliable delivery.** Requests and answers are lost and retried; main
  restarts and may lose rows; a worker sleeps and comes back; sync messages are
  repeated and arrive late.
* **Reads that age.** The intake plans on a view of the tasks it read before it
  asked GitLab; a gate reads the verdicts before the landing is released; a
  statement on Postgres waits for a row and does not look at the others again.
* **Timeouts.** Leases lapse, heartbeats age, children time out, lanes refuse.
* **Ownership.** One active task per lane, one lease per task, one process per
  node id, one child per task: each enforced in several places.

`PROJECT.json` lists the hazards at their lines, with the properties aimed at
them.

## Modules

| Module | Models | Notes |
|---|---|---|
| `Planner` | the rules of a scheduling pass | `Plans` is the set of assignments any pass may compute: an abstract specification, shared by `Scheduler` and `TaskBoard` |
| `Scheduler` | a pass executed task by task | shown to end in one of `Planner!Plans` (`PassMeetsPlan`) |
| `TaskBoard` | handlers, store, leases, recovery | a step is one store call; extends `Planner` |
| `Executor` | the worker's agent executor | a step is one request, one local write, one Popen |
| `NodeRegistry` | node row, watchdog, connectors, lock | a step is one request with its answer; the watchdog takes two |
| `Store` | what any backend promises about placing tasks | abstract: a start, a status write, a lease's end are atomic |
| `PgStore` | the Postgres store | a step is one SQL statement; implements `Store` |
| `MemStore` | the in-memory store | a step is one critical section; implements `Store` |
| `Gates` | landing gate, reviewer gate, ballots and the endpoints that ask them | a step is one handler; `_trigger_downstream` takes two |
| `Intake` | poller, webhook, manual poll, grouping, policy | a step is what runs between two awaits or store calls |
| `Monitors` | release drift and metering pollers with their supervisors, hooks | one machine with two rules, chosen once |
| `Sync` | federation sync between two nodes | a step is one call, delivered, lost before or lost after |
| `TaskBoardProofs` | – | theorems: types of the board |
| `TaskBoardSafety` | – | theorems: passes, lanes, pins and leases |
| `TaskBoardHandlers` | – | theorems: what each request keeps |
| `ExecutorProofs`, `NodeProofs` | – | theorems about the worker's executor, and about the node row |
| `StoreProofs` | – | theorems: both stores implement `Store`; what the federation keeps |
| `SchedulerProofs` | – | theorems: a pass computes a plan, and is fair |
| `ServiceProofs` | – | theorems: what releases a landing, what bundles share, what a lasting drift leaves told |
| `MCStores`, `MCWatch`, `MCIntake`, `MCBoard`, `MCExecutor`, `MCNode` | – | instances for TLC; the first three hold parts that share no state, one of which a behaviour is about |

**TaskBoard.** `status`, `assigned`, `attempts`, `deps` and `ballot` are the task
columns, `lease` the lease rows, `pin` the lanes table, `health` the node status.
`th` holds, for the event loop (`"loop"`), auto-recovery (`"auto"`) and the lease
scanner (`"scanner"`), the place in the code and the locals that outlive a store
call. A request action (`Complete`, `Fail`, ...) is the handler up to its first
write, with the guard its early returns make; the continuations (`Lookup`,
`Revoke`, `Write`, `Dependents`, ...) are shared by handlers that run the same
calls, with `then` and `tail` saying where to go on. Recovery is `RecRead` to
`RecFail`. Clocks are a choice: `Lapse` is the moment `expires_at` passes. A
scheduling pass is one step that carries out some plan of `Plans`.

**Executor.** `main` is what main's row says of a task, reduced to what this node
can tell apart; `Exchange` is a request that is answered, refused or lost.
`spawn`, `child`, `stray`, `records`, `fifo`, `released`, `busy`, `cooling`,
`pending` and `placed` are the executor's tables and the processes; `at` is the
place in the poll cycle and `native` the worker mode, chosen once. The actions
follow the cycle: sweep of cancelled spawns, reap, resolve, drop and report, drain
of pending reports, idle lanes, lane queues, lease renewal, disk gate, released
heads, candidates, Popen, record. A lane is looked at when one of its heads is
released or a candidate is taken; the native spawn looks again just before its
Popen and puts the task back into the queue of a busy lane (`Guarded`,
`SpawnQueued`), the bdaya-dispatch spawn does not.

**NodeRegistry.** One node id; `row` is its row, `wd` the status a watchdog check
is about to write, `proc` and `conn` the processes that claim the id and their
connectors. A heartbeat's age is a class (fresh, late, gone), what a report says
of the machine a verdict (well, ill, silent).

**Store, PgStore, MemStore.** `Store` has the status, the owner and the nodes
holding a live lease of each task. Its steps say what the routers rely on, and what
they do not get. A pass (`Place`) starts a task only from ready, with its lease, on
a node with room; recovery and re-queue leave closed tasks alone. A claim asks for
none of this: `set_task_status` writes running (`Claim`), the owner is written next
(`Take`) and then the lease (`Lend`), which `extend` and `POST /leases` create too.
`claimed` remembers the tasks written running so, and the loads of which `Place`
speaks count what passes placed. On Postgres, as on SQLite, a claim raises an
`AttributeError` after its first write (`routers/tasks.py:901` reaches for
`_tasks_lock`), so only `Claim` and the leases of other callers happen there.

The refinement maps a Postgres row's committed columns, or the in-memory tables, to
these. `PgStore` keeps for each caller the statement it is at and what it has read;
a pass holds the advisory lock for its transaction. `MemStore` keeps for each thread
the section it is at; the task table, the lease table and the index of leases have
locks of their own. A lease is `passed` if a pass made it, and `lent` are the tasks
of which a call created a lease since a pass read the leases: both are history, for
`PgOneLiveLease`. Rows a peer creates, and what the federation writes into a row,
are `Sync`'s.

**Gates.** The rows are the reviews of one merge request and its landings, with
the verdict and head each review delivered, whether they are assigned and leased,
and how often they were re-queued. The endpoints are those of `TaskBoard`, the
re-queue that `/fail` may ask for, claims and releases included, and `unassign_task`
is what a recovery does to a row that was leased; `gtOrder` is the order of
`updated_at`, by which the latest verdict is chosen, `gtLast` the verdict our
reviewers really delivered last, kept for the property. `gtTodo` and `gtNow` are
the loop of `_trigger_downstream`, between whose check and write a thread may
come. A foreign review is one of a namesake project that `_reviewer_of` takes for
ours.

**Intake.** `gl` is GitLab's side of an issue, `tasks` the rows made from issues,
the dictionaries and the view of a poll cycle are the poller's; `grouping_view`,
`pack_repo_candidates` and `bundle_plan_for_repo` follow the functions of the same
names on sets of issues with an order.

**Monitors.** `moWorld` is the outside (head of the main branch, credit, an API
that is down), `moThr` the poll threads and the manual poll, each at a place in
its cycle, `moThread` and `moStop` the attributes by which threads are armed and
stopped, `moActor` who is inside `start()` or `stop()`, `moBook` the alert state,
`moOld` the age of the drift in ticks, `moTold` the alerts whose fan-out is over.

**Sync.** Each node has its rows with versions, its sync version, its queue and
the call under way; `syWire` are the messages that may arrive again, `sySeen` what
was applied. `syStore` is the kind of store, since the in-memory one also compares
task versions.

Choices made throughout: names, texts, results and prices are left out or are
model values; logging, timeline events and metrics are left out. Constants named
`Max...` or `...Limit` bound faults or retries; `Calls`, `Threads`, `Faults`,
`Ends` and `Modes` say which endpoints, threads, faults, exits and worker modes a
configuration includes.

## What the runs check

Passing runs. Each property also has a mutant: a plausible bug in a mapped
definition, under which TLC finds the property violated.

| Run | Instance | Shows |
|---|---|---|
| `stores` | three tasks, two nodes, a pass task by task over submissions, re-queues, lapses, drains, outages and pins | `PassMeetsPlan`: an outcome `Plans` allows; `FairPass`: slots, priorities, balance, nothing placeable left |
| | Postgres: two tasks of a lane, two callers, seven calls | `PgImplementsStore`, `PgOneLiveLease` |
| | memory: three tasks, two nodes, two threads, six calls | `MemImplementsStore`, `MemLanesSerial` |
| | federation: two nodes, one task, each kind of store, retries, losses, late copies | `SyAppliedOnce`, `SyNeverBack` |
| `watch` | one issue of the backlog and one of band 0, a failing bundle or store or a restart, with fairness | `Ingested`: an open issue is taken up until delivered |
| | both watchers, two poll threads, merges, outages, low credit | `MoPersistentIsTold`, `MoBackstop` |
| `intake` | three issues of a repository, poller, webhook, both policies, a fault of any kind | `BacklogHeldOnce`: no backlog issue in two bundles, though the view is old when it is used |
| | gates: two reviews, a foreign one, two landings, six calls, the first two of which submit a review and the landing that waits for it | `GtLandsOnPass`: a landing goes from pending to ready on the last verdict delivered, a PASS at its head, or by one of four calls that ask no gate |
| `board_lanes` | two tasks of one lane, two nodes, one flaky; submit, advance, report_lane; auto-recovery; one crash | `LaneExclusive`, `SingleLiveLease`, `LaneNotRehomed` |
| `board_recovery` | two tasks for one slot; re-queue, veto, release; auto-recovery beside an operator's two recovery requests | `NoStranded`, the retry cap (`TypeOK`) |
| `board_handlers` | nine endpoints in every order, dependencies, renewals, ballots, the scanner; no recovery | `TerminalFinal`, `StartsAfterDeps`, `BlockedAnswerable`, `OneOwnerNode` |
| `board_live` | complete, cancel with its cascade, set_dependencies against auto-recovery, with fairness | `Reclaimed`, `RequestsEnd`, `CompletedNotReopened` |
| `executor_reports` | native worker, two tasks of a lane, two slots, every end of a child, cancels, timeouts, recoveries, a full disk that holds released heads back, a lost request or answer | `LaneSerial`, `NoDuplicateWorker`, `CompletedIsSound` |
| `executor_restart` | both worker modes, one crash anywhere, a full disk, idle and misplaced lanes, a lost request | `RecordsTracked`, `OnePlace` |
| `executor_live` | an outage shorter than the retries, refusals, failing Popens, cancels | `FinishedReported`, `CancelStops`, `Served` |
| `node_owner` | three processes on two machines, probes that flip, a loss | `OneOwner`, `CapsHonest` |
| `node_live` | a worker with and one without token, sleep, outage, bad and missing readings, a main that forgets | `DeadFound`, `AloneServed`, `StaysOnline`, `SickLeaves` |

### Divergences

The passing configurations leave out an endpoint, a thread or a fault where the
code does not keep the property. What then happens is kept as a configuration
that TLC answers with a counterexample (`tlc -config X.cfg MCBoard`, `MCExecutor`
or `MCNode`); they are not among the runs of `PROJECT.json`.

| Configuration | Property | Counterexample | At |
|---|---|---|---|
| `BoardReleaseReopens` | `CompletedNotReopened` | A release of a completed task on the SQLite store makes it ready again. | `state/cluster_store.py:834` |
| `BoardTerminal` | `TerminalFinal` | A completed task becomes failed when a recovery that unassigned it earlier finds no node for it. | `state/cluster_store.py:834` |
| `BoardFailsRunning` | `FailsOnlyUnplaced` | A handler's pass places the task a recovery has just unassigned; the recovery places nothing and fails the running task. | `recovery/rescheduler.py:89` |
| `BoardExtendHangs` | `RequestsEnd` | A renewal that meets any lapsed lease waits for the lock it holds itself, and the event loop with it. | `lease/lease_manager.py:243` |
| `BoardFailsParked` | `ParkedNotFailed` | Recovery of a pinned lane whose node is away fails the task instead of leaving it parked. | `recovery/rescheduler.py:75` |
| `BoardClaimLane` | `LaneExclusive` | A claim starts a task of a lane that already has an active task. | `routers/tasks.py:890` |
| `BoardClaimStrands` | `NoStranded` | On the SQLite store a claim leaves the task running with no assignment and no lease. | `routers/tasks.py:901` |
| `BoardTwoOwners` | `OneOwnerNode` | A renewal that has read its lease before a recovery moves the task re-creates a live lease for the old node beside the new owner's. | `lease/lease_manager.py:248` |
| `BoardUnanswered` | `BlockedUntilAnswered` | Recovery of an expired lease puts a blocked task back to ready without an answer. | `state/cluster_store.py:853` |
| `BoardCrashStrands` | `NoStranded` | A crash between the revocation of a lease and the status write leaves a running task that no lease covers. | `routers/tasks.py:457` |
| `BoardCrashAnswer` | `BlockedAnswerable` | A crash between recording an answer and unblocking leaves a blocked task whose question cannot be answered again. | `routers/tasks.py:786` |
| `BoardOrphanLease` | `ClosedUnleased` | fail revokes a lapsed lease row of the task and leaves the live one. | `state/cluster_store.py:1157` |
| `ExecLaneTwice` | `LaneSerial` | A bdaya-dispatch worker: while the disk gate skips claims, each cycle releases another head of an idle lane; when it opens both are spawned into the lane. (The native spawn looks at the lane again, `core/agent_executor.py:1394`.) | `core/agent_executor.py:596` |
| `ExecCrashSpawn` | `NoDuplicateWorker` | A crash between Popen and the write of the spawn record leaves a child nobody knows, and the task is spawned again beside it. | `core/agent_executor.py:1512` |
| `ExecCrashCode` | `CompletedIsSound` | After a restart a child that failed with part of its result written is reported completed. | `core/agent_executor.py:255` |
| `ExecPaidTwice` | `FinishedNotRedone` | While a completion waits for main, the next poll finds the task still running and unrecorded and spawns it again. | `core/agent_executor.py:653` |
| `ExecCancelSurvives` | `CancelStops` | After a restart, cancelling a re-attached task forgets its child without stopping it. | `core/agent_executor.py:2436` |
| `NodeTwoOwners` | `OneOwner` | After an outage longer than offline_after a second machine takes the node id over; the first keeps its registration and its beats are accepted. | `routers/nodes.py:87` |
| `NodeSick` | `SickStaysOut` | A beat without a reading puts a node back online that was degraded for its last reading. With `Faults = {"ill"}` alone: a check that read the row before a bad report writes online over the degradation that report made (`core/watchdog.py:217`). | `core/node_manager.py:410` |
| `NodeCapsEmpty` | `CapsHonest` | A worker that declares nothing at its re-join keeps the capabilities its predecessor declared. | `core/node_manager.py:293` |

Two exceptions are part of the properties themselves. `StartsAfterDeps` excepts
tasks that were blocked: `block_task` accepts a task that is pending on its
dependencies and `answer_task` writes it ready without looking at them
(`routers/tasks.py:786`, against the comment at line 367). `CapsHonest` assumes
that no request is lost: when the answer to a PATCH is lost the connector's
belief is old, and if the probe then returns to it nothing more is sent
(`core/worker_connector.py:358`).

What the newer modules show of this kind has no configuration of its own: the
property, or the module's opening comment, says what is excepted.

* *Gates.* `set_dependencies` on a completed review moves its `updated_at`, and an
  old verdict becomes the latest (`core/landing_gate.py:173`: "Latest = last
  completed"); `GtLandsOnPass` excepts behaviours in which that was done. A pending
  landing that is blocked and answered becomes ready without the gate; so does one
  that is failed with `requeue`, released, or taken back by a recovery: each writes
  ready to any open row (`routers/tasks.py:556`, `:935`,
  `state/cluster_store.py:853`). `core/landing_gate.py:54` says advance "is the only
  ungated path"; the property names the four (`Ungated`). A blocked
  reviewer is not counted as a live one when a review is submitted. A PASS in
  heading form satisfies the reviewer gate and cannot be read by the landing gate,
  which then holds. A namesake project's review supersedes ours, which can hold a
  landing and never releases one. An author recorded between check and write of
  `_trigger_downstream` is not seen.
* *Postgres store.* Two tasks of a lane can run: the lane's siblings and the ready
  list are read in different statements, and `trigger_pending_tasks` does not take
  the advisory lock. `unassign_task` and `requeue_task` test "no live lease" on
  the statement's snapshot (`state/postgres_store.py:898`: "no read-modify-write
  race"), so a task can become ready with a live lease, to which no pass adds a second.
  Leases that `extend`, claim and `POST /leases` create may overlap with each other
  and with a pass's, as `state/postgres_store.py:1105` expects; `PgOneLiveLease` is
  about those a pass makes, and about which others it can commit beside. A claim
  starts a task of a busy lane, and on a full node.
  The sweep promotes on dependencies it read earlier. A renewal that waits for
  its lock waits for the store's bridge, up to its timeout.
* *In-memory store.* A re-queue that races a pass leaves two live leases of a task, and so do
  a renewal and `POST /leases`; a claim starts a second task of a lane, or
  one on a full node, and between its sections the task runs for nobody;
  `set_dependencies` does not take a ready task back.
* *Intake.* A parked bundle does not hold its issues, which are bundled again;
  `BacklogHeldOnce` leaves bundles out that were ever parked. A manual poll
  overlapping the poller duplicates bundles (the runs have one polling actor), and
  webhook and poller can both make a task for an issue of band 0. Per-issue mode
  notes an issue as seen before it is created, and loses it when the store
  fails, so `Ingested` is about grouping; after a restart it creates again. Two
  projects with the same last path segment share a lane. A re-plan after blockers
  does not read the links again.
* *Monitors.* `stop()` and `start()` close together, or two starters, leave two
  poll threads; both alert, against "one alert per (main head, threshold class)"
  (`core/release_drift.py:199`). The alert key is set before delivery, so an
  alert whose delivery fails is not repeated. The docstring's alert on an unknown
  build is not implemented. Hooks live in memory and are lost on a restart.
* *Sync.* An event's version is `sync_version() + 1`, and queueing it does not
  advance the version: a second event before the first is answered has the same
  version and is rejected by the peer (`sync/__init__.py:518`). SQLite and Postgres
  apply stale task versions and reopen closed tasks, which the in-memory store
  refuses; a snapshot creates a row one version ahead of the sender's. `SyNeverBack`
  says what remains. `SyncCoordinator` is not started by the application.

### Bounds

Two tasks and two nodes with one slot are the least in which lanes, slots, pins
and recoveries meet. Two lease rows let a lapsed row and a live one of the same
task coexist; revoked rows nobody refers to are used again, so the number of
leases over time is not bounded. One restart suffices for a crash at any point of
a request; one or two losses let a lost answer meet its retry. `RetryLimit`,
`QueueLimit`, `MaxRetries` and `MaxAttempts` are 1 to 3, so that limits are
reached. In `board_live` no request re-queues a task: two rows are then enough
for every pass, and no thread waits for a row, which the code never does.
`executor_restart` has one task of a lane and one of none, competing for one slot.
`NodeRegistry` has two or three processes, on two machines.

In `stores` and the gates' part of `intake` the calls of a behaviour are counted
(`PgMaxCalls`, `MemMaxCalls`, `SyEvents`; `GtMaxCalls`): enough for two callers to
meet in every pair of operations after the calls that bring the tasks there, and for
a landing to be submitted, reviewed, reviewed again and held. That the gates' first
two calls are given (`GtSubmissions`) leaves out only what comes before there is a
landing to hold. Callers and in-memory
nodes are alike, so `stores` uses symmetry. One polling actor and two or three
task rows are enough for the intake to bundle, finish and bundle again; one fault
of any kind, or one write of the policy, happens at any point (`MaxUpsets`), and
in `intake` the backlog is not empty at the start (`Existing`). `MoEvents` bounds
merges, outages and configuration writes; `MoGrace` is one tick below `MoMax`, so
that both are passed.

Deadlock checking is off in the board's runs, where all tasks may be closed and
no client calls, and in `stores`, `watch` and `intake`, where the calls are used
up or the system has nothing to do.

### Fairness

* `TaskBoard`: weak fairness of every thread's continuation and of auto-recovery's
  scan: the event loop finishes the request it serves, and the thread loops with
  a fixed interval. No client request is assumed.
* `Executor`: weak fairness of the poll cycle (one thread, a fixed interval) and
  of backoff deadlines; strong fairness of a drain in which every queued report
  is due, since backoffs are capped. `Served` assumes in addition that children
  end, as `spawn_timeout` forces them to.
* `NodeRegistry`: weak fairness of connectors and watchdog (loops with a fixed
  interval), strong fairness of a due probe, and ageing of a heartbeat nobody
  refreshes. Losses are bounded, so an outage ends.

* `Intake`: weak fairness of the poller's cycle (a thread with a fixed interval), of
  the rest of a request once it has begun, of scheduling and of sittings, which end
  or are answered; labels and open merge requests that hinder an issue go away.
  Faults are bounded.
* `Monitors`: weak fairness of every poll thread, of the supervisor (a thread with
  a fixed interval), of whoever is inside `start()` or `stop()`, and of time.

## What is proved

All theorems hold for every value of the constants allowed by the named
assumptions (`PlannerAssumption`, `BoardAssumption`, `NodeAssumption`,
`SchedulerAssumption`, `MemAssumption`, `PgAssumption`, `ExecutorAssumption`,
`EndsAssumption`, `GtAssumption`, `IntakeAssumption`, `MoAssumption`, `SyAssumption`),
which say that bounds are numbers, that tasks, nodes and lanes are finite sets where the code counts them, and that the values
standing for "nothing" are not among them. None of the properties is inductive;
what follows names the invariant that is.

A theorem has a further hypothesis where the code keeps the property only then. Each
is a condition on the endpoints, threads or faults a configuration includes; the
third column says what happens without it, with the configuration that shows it
where there is one:

| Theorem | Holds while | Otherwise |
|---|---|---|
| `LaneSafety`, `PinSafety` (board) | nobody claims tasks | `BoardClaimLane` |
| `LeaseSafety` | nobody renews leases | a renewal makes its new lease before it ends the old one (`BoardTwoOwners`) |
| `OwnerSafety` (board) | auto-recovery does not run | `BoardTwoOwners` |
| `NothingLost` | no claim, no renewal, no crash | `BoardClaimStrands`, `BoardCrashStrands`; a renewal can leave the live lease with a former owner |
| `DeliverySafety` | nobody releases tasks | `BoardReleaseReopens` |
| `TerminalSafety` | only the event loop writes, and nobody releases | `BoardTerminal` |
| `GateSafety` | the same; nothing re-queues a task | `requeue_task` makes a pending task ready, whatever it waits for |
| `BallotSafety` | no crash | `BoardCrashAnswer` |
| `CompletionSafety` | exit codes survive a restart, or a child that fails writes nothing, or no crash | `ExecCrashCode` |
| `ChildSafety` | native worker, no crash | `ExecCrashSpawn` |
| `LaneSafety` (executor) | native worker, or no lane has two released heads | `ExecLaneTwice` |
| `BundleSafety` | one cycle runs at a time | a manual `/poll` beside the thread duplicates bundles |
| `OwnerSafety` (node) | workers with tokens, no suspension, row loss or long outage | `NodeTwoOwners` |

### The board

* `TypeCorrect` (`TaskBoardProofs`): `Spec => []TypeOK`. `TypeOK` is not
  inductive: recovery puts the task of a lease row into its work list and extend
  copies the row, so `TypeInv` adds that rows in use name a task and a node, and
  that a thread's locals fit its place (`InOrder`).
* `LaneSafety`, `PinSafety` (`TaskBoardSafety`): `LaneExclusive` and
  `LaneNotRehomed`. No handler is about to write an active status (`Claimless`), so
  a task becomes active only inside a scheduling pass, and a plan never starts a
  second task of a lane nor a task of a pinned lane elsewhere.
* `LeaseSafety`: `SingleLiveLease`. A new lease is made only by a pass
  (`OwnersByPass`), which takes only tasks without a live one (`PassLeases`); no row
  comes back to life.

`TaskBoardHandlers` rests on one fact about the control flow, `Routed` with `Moves`:
which places a thread reaches and through which endpoint, and that a handler with a
task in hand goes on with that task and the status it means to write. On top of it:

* `BallotSafety`: `BlockedAnswerable`. Between recording the ballot and writing
  `blocked` the question stays open (`Asked`), since only the event loop answers.
* `DeliverySafety`: `CompletedNotReopened`, with recoveries and restarts. The guard
  of a handler was read several store calls before the write; what it has in hand is
  still not completed (`Undelivered`), because everything that completes a task runs
  on the same loop. Recovery's guard and its write are one transaction.
* `TerminalSafety`: `TerminalFinal`, from the stronger `OpenInHand`: what a handler has
  in hand is open, or a cancel it acknowledges. A recovery in another thread breaks
  it, since its last write is not guarded.
* `GateSafety`: `StartsAfterDeps`. `Gated`: what is ready or running, or about to be
  made so, has its dependencies completed or was blocked once; completed
  dependencies stay completed by `OpenInHand`.
* `OwnerSafety`: `OneOwnerNode`, with renewals. A renewal copies its row two store
  calls after it has read it; `Renewed`: the live leases of that task still name the
  row's node, because no row changes but by lapsing while the renewal holds the
  manager's lock (`LockHolds`).
* `NothingLost`: `NoStranded`, with recoveries. `NoneLost`: at every moment a running
  task has a row on its node from which it can be reclaimed, or some thread answers
  for it: a handler with the task in hand, or a recovery that revoked its lease and
  has it on its list. `LiveAssigned`, a live lease is held by the assigned node, makes
  the refusal of `unassign_task` safe, and `RevokesOwn`, a handler revokes a row
  that is still its task's, says why no other task loses its lease.

### The stores

* `PgRefinesStore`, `MemRefinesStore`: `PgSpec => PgImplementsStore` and
  `MemSpec => MemImplementsStore`, the refinement step by step: every statement
  maps to a step of `Store` or to none; a claim's three writes, and leases made
  outside a pass, are steps of their own there. A Postgres pass is the hard case: it reads
  counts, leases, lanes and ready rows in four statements and places at its commit.
  `PgInv` says that what it read is a safe bound of what is now: one pass holds the
  advisory lock (`PgOnePass`), so loads are at most its counts (`PgCountsBound`), the
  tasks it saw leased were barred (`PgBarsLeased`), and rows it has updated are
  locked, hence still ready (`PgPutsReady`). Claims come in between: they raise the
  load of a node, which is why `claimed` is in `Store`. In memory a pass is one section, and the
  proof is about its effect.
* `PgLeasesOnce`: `PgOneLiveLease`. Passes give a task one live lease; a second one
  was created by `extend`, a claim or `POST /leases`, and a pass about to commit a
  task that has a live one read the leases before that was created.
* `MemLanesStaySerial`: `MemLanesSerial`, of two tasks of a lane that run one was
  claimed and not placed since: the pass decides and writes under one lock.
* `SyncOnce`, `SyncOnward`: `SyAppliedOnce` and `SyNeverBack` of the federation.
  `SyInv`: an identity names one version (`SyNamed`), and the log has reached the
  version of every message applied (`SyClean`), so a message ahead of the log is new.
  A batch is a recursive function of the messages gone through. The library's
  induction theorems cannot be used, so `BatchRun` shows from the least number
  without one that the function exists, and `BatchKeeps` that a set of states every
  message stays in is one the batch stays in.

### The executor

* `ExecutorTypes`: `Spec => []TypeOK`; `TypeInv` says what the loop's local holds at
  each place.
* `RecordsSafety`: `RecordsTracked`, with crashes anywhere and lost requests. Inside
  a cycle the records are the tracked spawns up to the one being dropped (`Books`);
  a crash resumes exactly the records.
* `CompletionSafety`: `CompletedIsSound`. `Honest`: everything that says or will say
  complete is about a task a child of which succeeded: exit codes, outcomes, the
  report in hand, the pending and the due retries, main's row.
* `ChildSafety`: `NoDuplicateWorker`. A child is always tracked or dead (`Attended`).
* `PlaceSafety`: `OnePlace`. `Lines`: a lane's released heads followed by its queue
  hold no task twice, only its own tasks, and none that is tracked, in hand or a
  candidate.
* `LaneSafety`: `Spec /\ [](native \/ OneHead) => []LaneSerial`. For the native worker
  `NativeSerial`: of a lane at most one task has a record or is about to get one,
  because the spawn looks at the lane again between its release and its Popen. For
  the bdaya-dispatch worker `Serial`: one task of a lane is in flight at most, none
  while a head of it is released; there a second released head, the divergence
  `ExecLaneTwice`, is the only way to break the serialization.

### The pass

`TaskBoard` takes a scheduling pass as one step that carries out some plan of
`Plans`, and so do its proofs. These two theorems are about the code of a pass,
`schedule_pending_detailed` with both schedulers, task by task.

* `PassPlans`: `PassMeetsPlan`. What the loop has placed or left, with its running
  loads and its cursor, is one of `Plans` for the rows it has read.
* `PassFair`: `FairPass`, its four conjuncts. The invariant is `LoopInv`: tasks are
  gone through in order of priority and age (`InOrder`); a load is what was running
  plus what was placed (`LoadsCount`); every task gone through is placed or left by
  the rules as they were (`SoFarFits`), is left only if no node has room
  (`LeftOnlyFull`), is not overtaken (`NoJump`), and load-balanced tasks are spread
  to within one (`Spread`). What is said of a task gone through stays true because
  loads only grow.

The cursor of the round robin is a count per node of the nodes picked after it
(`since`), which is what the code's counter decides between nodes of equal load.

### The gates, the intake and the watchers

* `LandingSafety`: `GtLandsOnPass`, with the sweep's thread between the check and
  the write of `_trigger_downstream`, foreign reviews, ballots, re-queues, claims, releases and
  recoveries; the steps that ask no gate are excepted by name. `Latest`: until a completed row is touched, the completed review that was updated
  last is the one of ours that delivered last, or a foreign one, whose head no
  landing of ours names. `Decided`: what was decided of the landing in hand still
  holds at the write, because no review completes in between.
* `BundleSafety`: `BacklogHeldOnce`. A view may be old when its plans are published;
  `Covers`: it still has every backlog issue of a bundle that claims one, because a
  bundle never begins to claim again and the webhook bundles band 0 only. `InPlans`:
  the plans share nothing with the view nor with each other.
* `BackstopSafety`: `MoBackstop`, with two threads in a cycle, restarts and a changing
  configuration. `MoBooked`: the age in the book is the episode's, and the alert it
  noted last is about its head and was told or is in some thread's hand. So a cycle
  that stays silent because the key is the last one leaves that alert told.

### Nodes

* `NodeTypeCorrect`, `OwnerSafety` (`NodeProofs`): `OneOwner` for a fleet of
  token-sending workers without suspension, row loss or long outage. The
  invariant adds that the row names its owner and is not stale while it has one.

### Only model-checked

Liveness (`Reclaimed`, `RequestsEnd`, `FinishedReported`, `CancelStops`, `Served`,
`Ingested`, `MoPersistentIsTold` and the node's) is out of the prover's
reach, with fairness and `ENABLED`. Every invariant and every safety
action property of the runs is proved, each under a hypothesis its run satisfies.

## Not modelled

Lane cost, peer authentication, `ClusterCore`, the task manager, the plugin, setup
and user interface; the text rules of gates, guard, briefs and ballots;
`components` in `PROJECT.json` gives the reason for each. In `TaskBoard`
dependency chains longer than the ten levels of `get_trigger_chain` do not occur.

`ClusterCore` (`core/cluster_core.py`) is an older composition the application does
not construct. Reading it showed what a model would: `len(promoted)` of an integer
(line 417), the task of an expired lease is not recovered while leases of its
healthy node are revoked, a reassignment makes no lease, and only direct
dependents are blocked.

## Plan

1. *Done*: `Planner`, `Scheduler`, `TaskBoard` with recovery and leases,
   `Executor`, `NodeRegistry`; the theorems above.
2. *Done*: `Store` with its refinements `PgStore` and `MemStore`, `Intake`, `Gates`,
   `Sync`, `Monitors` with the hooks.
3. `LeaseCycle`: composition of the executor's renewals with the board's leases.
4. Proofs. *Done*: both refinements of `Store`; the executor's types, records,
   completions, children and lanes; the handlers of the board; passes; landings;
   bundles; the federation; the watchers. Left: the executor's renewals with `LeaseCycle`.
