------------------------------- MODULE Intake -------------------------------
(***************************************************************************)
(* GitLab intake (routers/intake.py, core/intake_grouping.py,              *)
(* core/intake_policy.py): issues become tasks, one task an issue or one   *)
(* bundle of issues a repository (#762), through the poller, the webhook   *)
(* and the manual /poll, which share the store and two dictionaries.       *)
(*                                                                         *)
(* The poller is a thread; the webhook and /poll run on the event loop and *)
(* give way to each other only where they await GitLab.  A step here is    *)
(* what runs between two awaits, or between two store calls where the      *)
(* poller's thread can come between.  GitLab's answers about one           *)
(* repository are read at one instant.  What becomes of a task once it is  *)
(* queued is TaskBoard's business: here a sitting starts, is parked,       *)
(* ends or is cancelled.                                                   *)
(***************************************************************************)
EXTENDS Naturals, Sequences, FiniteSets

CONSTANTS
    Issues, Repos,
    RepoOf,         \* the project of an issue
    Iid,            \* its number, unique within its project only
    LaneOf,         \* lane_key_for: the last segment of the project's path
    Band,           \* band_for: 0 is the business team
    Area, Created,  \* area:: label (0 is none) and rank of created_at
    Undated,        \* issues whose created_at cannot be parsed
    Existing,       \* issues that are open when the intake starts
    Hindered,       \* issues that may be opened with an MR or a skip label
    BlockedBy,      \* is_blocked_by links
    MaxBundle, MaxAreas, Window,
    DedupFull,      \* dedup_scope: "full" or "iid"
    Pollers,        \* cycles that may overlap: the thread, and /poll
    Policies,       \* what an operator may save: "off", "each", "grouped"
    Faults,
    MaxUpsets,      \* bound on faults and policy writes together
    MaxPuts,        \* bound on policy writes
    RateLimit, MaxTasks

ASSUME IntakeAssumption ==
    /\ RepoOf \in [Issues -> Repos] /\ Iid \in [Issues -> Nat]
    /\ Band \in [Issues -> 0..5] /\ Area \in [Issues -> Nat]
    /\ Created \in [Issues -> Nat] /\ BlockedBy \in [Issues -> SUBSET Issues]
    /\ \A i, j \in Issues :
          i # j => Created[i] # Created[j] /\ (RepoOf[i] = RepoOf[j] => Iid[i] # Iid[j])
    /\ {Undated, Existing, Hindered} \subseteq SUBSET Issues
    /\ {Window, DedupFull} \subseteq BOOLEAN
    /\ MaxBundle \in Nat \ {0} /\ MaxAreas \in Nat \ {0}
    /\ "hook" \notin Pollers /\ Policies \subseteq {"off", "each", "grouped"}
    /\ Faults \subseteq {"store", "gitlab", "restart", "park", "cancel", "fail"}
    /\ {MaxUpsets, MaxPuts, RateLimit, MaxTasks} \subseteq Nat

VARIABLES
    gl,         \* issues on GitLab: absent, open, open with an open MR that names
                \* it, open with a label of the skip list, closed
    aged,       \* issues older than the accumulation window
    tasks,      \* the intake's rows of the task table, in order of creation
    known,      \* keys of _issue_dedup_to_task_id
    seen,       \* _seen_keys of the poller
    policy,     \* the stored intake.gitlab section
    puts,       \* write attempts in the limiter's window
    at,         \* where each cycle and the webhook handler are
    faults      \* faults so far

vars == <<gl, aged, tasks, known, seen, policy, puts, at, faults>>

Actors == Pollers \cup {"hook"}
Opened == {"open", "mr", "doomed"}
Lanes == {LaneOf[r] : r \in Repos}
NoView == [held |-> {}, iids |-> {}, busy |-> {}, zero |-> {}]
Idle == [pc |-> "idle", mode |-> "off", todo |-> {}, got |-> {}, cur |-> {},
         view |-> NoView, plans |-> {}]

Init ==
    /\ gl = [i \in Issues |-> IF i \in Existing THEN "open" ELSE "none"]
    /\ aged = {} /\ tasks = <<>> /\ known = {} /\ seen = {}
    /\ policy \in Policies /\ puts = 0
    /\ at = [a \in Actors |-> Idle]
    /\ faults = 0

----------------------------------------------------------------------------
(* What the store says *)

Key(i, mode) ==
    IF mode = "grouped" \/ DedupFull THEN <<i, "full">> ELSE <<Iid[i], "iid">>

Holding == {"queued", "active", "stopping"}

BandOf(S) == CHOOSE b \in {Band[i] : i \in S} : \A i \in S : b <= Band[i]
LaneOfTask(t) == LaneOf[RepoOf[CHOOSE i \in t.of : TRUE]]
Rows == {tasks[n] : n \in DOMAIN tasks}

(* Mutant: a completed bundle gives its issues back. *)
Mut_grouping_view ==
    LET live == {t \in Rows : t.st \in Holding}
        bundles == {t \in live : t.bundle}
    IN  [held |-> UNION {t.of : t \in {u \in Rows : u.bundle /\ u.st \in Holding \cup {"retired"}}},
         iids |-> {Iid[i] : i \in UNION {t.of : t \in live \ bundles}},
         busy |-> {LaneOfTask(t) : t \in bundles},
         zero |-> {LaneOfTask(t) : t \in {u \in bundles : u.st # "active" /\ BandOf(u.of) = 0}}]

(* Mutant: a failed bundle keeps its issues. *)
Mut_grouping_view_failed ==
    LET live == {t \in Rows : t.st \in Holding}
        bundles == {t \in live : t.bundle}
    IN  [held |-> UNION {t.of : t \in {u \in Rows : u.bundle /\ u.st \notin {"parked", "released"}}},
         iids |-> {Iid[i] : i \in UNION {t.of : t \in live \ bundles}},
         busy |-> {LaneOfTask(t) : t \in bundles},
         zero |-> {LaneOfTask(t) : t \in {u \in bundles : u.st # "active" /\ BandOf(u.of) = 0}}]

(* _grouping_view: bundles that are queued, active or being cancelled hold *)
(* their issues and their lane; completed ones, and ones cancelled without *)
(* requeue, hold their issues (#911); per-issue tasks hold their number.   *)
(* A parked (blocked) bundle holds nothing.                                *)
grouping_view ==
    LET live == {t \in Rows : t.st \in Holding}
        bundles == {t \in live : t.bundle}
    IN  [held |-> UNION {t.of : t \in {u \in Rows : u.bundle
                              /\ u.st \in Holding \cup {"completed", "retired"}}},
         iids |-> {Iid[i] : i \in UNION {t.of : t \in live \ bundles}},
         busy |-> {LaneOfTask(t) : t \in bundles},
         zero |-> {LaneOfTask(t) : t \in {u \in bundles : u.st # "active" /\ BandOf(u.of) = 0}}]

(* _waiting: the fetched issues no task of the view holds. *)
Waiting(S, view) == {i \in S : i \notin view.held /\ Iid[i] \notin view.iids}

----------------------------------------------------------------------------
(* The planner (core/intake_grouping.py) *)

(* should_accumulate: the window keeps a young backlog together, unless    *)
(* the batch is full or no age is known.                                   *)
should_accumulate(C) ==
    /\ Window /\ BandOf(C) > 0
    /\ Cardinality(C) < MaxBundle
    /\ C \ Undated # {} /\ (C \ Undated) \cap aged = {}

(* The order of the packing: larger areas first, unlabelled ones last of   *)
(* their size, then by name; within an area the newest first, undated last *)
(* (_recency_key).                                                         *)
AreaBefore(T, a, b) ==
    LET n(x) == Cardinality({i \in T : Area[i] = x})
    IN  \/ n(a) > n(b)
        \/ n(a) = n(b) /\ (IF 0 \in {a, b} THEN b = 0 /\ a # 0 ELSE a < b)
recency_before(i, j) ==
    \/ i \notin Undated /\ j \in Undated
    \/ (i \in Undated) = (j \in Undated) /\ Created[i] > Created[j]

(* pack_repo_candidates: of the candidates of the most urgent band, the    *)
(* first MaxBundle in that order, from at most MaxAreas areas.             *)
pack_repo_candidates(C) ==
    LET T == {i \in C : Band[i] = BandOf(C)}
        ahead(i) == {j \in T : \/ AreaBefore(T, Area[j], Area[i])
                               \/ Area[j] = Area[i] /\ recency_before(j, i)}
        areas(i) == {Area[j] : j \in ahead(i)} \cup {Area[i]}
    IN  {i \in T : Cardinality(ahead(i)) < MaxBundle /\ Cardinality(areas(i)) <= MaxAreas}

(* bundle_plan_for_repo: the cardinality guard, the window, the packing;   *)
(* {} when there is nothing to create.                                     *)
bundle_plan_for_repo(r, C, view) ==
    IF \/ C = {}
       \/ LaneOf[r] \in view.busy /\ BandOf(C) > 0
       \/ LaneOf[r] \in view.zero
       \/ should_accumulate(C)
    THEN {}
    ELSE pack_repo_candidates(C)

(* _held_by_open_blockers, with the batch whose members may order          *)
(* themselves.                                                             *)
held_by_open_blockers(batch) ==
    {i \in batch : \E b \in BlockedBy[i] \ batch : gl[b] \in Opened}

(* The plan of one repository: census of open MRs (D-SPAWN-1), then the    *)
(* links of the batch; what they hold is taken out and the rest is planned *)
(* again, without reading the links again.                                 *)
PlanFor(r, C, view) ==
    LET free == {i \in C : gl[i] # "mr"}
        batch == bundle_plan_for_repo(r, free, view)
        held == held_by_open_blockers(batch)
    IN  IF bundle_plan_for_repo(r, C, view) = {} \/ batch = {} THEN {}
        ELSE IF held = {} THEN batch
        ELSE bundle_plan_for_repo(r, free \ held, view)

----------------------------------------------------------------------------
(* GitLab and its users *)

(* An issue is opened (or reopened) with whatever stands in its way.       *)
Open(i) ==
    /\ gl[i] = "none"
    /\ \E s \in IF i \in Hindered THEN Opened ELSE {"open"} : gl' = [gl EXCEPT ![i] = s]
    /\ UNCHANGED <<aged, tasks, known, seen, policy, puts, at, faults>>

(* The MR is merged or closed, the label is removed. *)
Clear(i) ==
    /\ gl[i] \in {"mr", "doomed"}
    /\ gl' = [gl EXCEPT ![i] = "open"]
    /\ UNCHANGED <<aged, tasks, known, seen, policy, puts, at, faults>>

(* The issue is closed once a sitting delivered it. *)
Close(i) ==
    /\ gl[i] \in Opened /\ \E t \in Rows : i \in t.of /\ t.st = "completed"
    /\ gl' = [gl EXCEPT ![i] = "closed"]
    /\ UNCHANGED <<aged, tasks, known, seen, policy, puts, at, faults>>

(* oldest_candidate_age_s passes accumulate_window_s. *)
Ripen(i) ==
    /\ Window /\ gl[i] \in Opened /\ i \notin aged \cup Undated
    /\ aged' = aged \cup {i}
    /\ UNCHANGED <<gl, tasks, known, seen, policy, puts, at, faults>>

----------------------------------------------------------------------------
(* A cycle: poll_once *)

Goto(a, rec) == at' = [at EXCEPT ![a] = rec]
Fault(f) == f \in Faults /\ faults + puts < MaxUpsets /\ faults' = faults + 1

(* The cycle reads the policy once.  Disabled, it ends at once. *)
PollStart(a) ==
    /\ at[a].pc = "idle" /\ policy # "off"
    /\ Goto(a, [Idle EXCEPT !.pc = "fetch", !.mode = policy, !.todo = Repos])
    /\ UNCHANGED <<gl, aged, tasks, known, seen, policy, puts, faults>>

(* _fetch_issues of one scope, with the filter on its labels that grouping *)
(* applies to what was fetched.  Cycles by issue finish a scope before the *)
(* next is fetched.                                                        *)
Fetch(a, r) ==
    /\ at[a].pc = "fetch" /\ r \in at[a].todo
    /\ at[a].mode = "each" => at[a].got = {}
    /\ LET page == {i \in Issues : /\ RepoOf[i] = r /\ gl[i] \in Opened
                                   /\ at[a].mode = "grouped" => gl[i] # "doomed"}
       IN  Goto(a, [at[a] EXCEPT !.todo = @ \ {r}, !.got = @ \cup page])
    /\ UNCHANGED <<gl, aged, tasks, known, seen, policy, puts, faults>>

(* A scope that fails is skipped and does not starve the others. *)
FetchFails(a, r) ==
    /\ at[a].pc = "fetch" /\ r \in at[a].todo
    /\ at[a].mode = "each" => at[a].got = {}
    /\ Fault("gitlab")
    /\ Goto(a, [at[a] EXCEPT !.todo = @ \ {r}])
    /\ UNCHANGED <<gl, aged, tasks, known, seen, policy, puts>>

(* The grouped cycle looks at the store once, for all its plans. *)
TakeView(a) ==
    /\ at[a].pc = "fetch" /\ at[a].mode = "grouped" /\ at[a].todo = {}
    /\ Goto(a, [at[a] EXCEPT !.pc = "plan", !.view = grouping_view,
                             !.todo = {RepoOf[i] : i \in at[a].got}])
    /\ UNCHANGED <<gl, aged, tasks, known, seen, policy, puts, faults>>

PlanRepo(a, r) ==
    /\ at[a].pc = "plan" /\ r \in at[a].todo
    /\ LET C == Waiting({i \in at[a].got : RepoOf[i] = r}, at[a].view)
           plan == PlanFor(r, C, at[a].view)
       IN  Goto(a, [at[a] EXCEPT !.todo = @ \ {r}, !.plans = @ \cup ({plan} \ {{}})])
    /\ UNCHANGED <<gl, aged, tasks, known, seen, policy, puts, faults>>

(* A lookup that fails holds the candidates back for this cycle. *)
PlanRepoFails(a, r) ==
    /\ at[a].pc = "plan" /\ r \in at[a].todo
    /\ Fault("gitlab")
    /\ Goto(a, [at[a] EXCEPT !.todo = @ \ {r}])
    /\ UNCHANGED <<gl, aged, tasks, known, seen, policy, puts>>

(* trigger_pending_tasks and schedule_pending after every creation, and on *)
(* the watchdog's pass: any of the queued tasks starts, one bundle a lane. *)
NewTask(S, isBundle) ==
    [of |-> S, bundle |-> isBundle, st |-> "queued", requeue |-> TRUE, wasParked |-> FALSE]
Scheduled(ts) ==
    LET free(n) == /\ ts[n].st = "queued"
                   /\ ts[n].bundle => \A m \in DOMAIN ts :
                        ts[m].bundle /\ ts[m].st \in {"active", "stopping"}
                        => LaneOfTask(ts[m]) # LaneOfTask(ts[n])
        clash(n, m) == n # m /\ ts[n].bundle /\ ts[m].bundle
                       /\ LaneOfTask(ts[n]) = LaneOfTask(ts[m])
        starts == {S \in SUBSET {n \in DOMAIN ts : free(n)} :
                      \A n, m \in S : ~clash(n, m)}
    IN  {[n \in DOMAIN ts |-> IF n \in S THEN [ts[n] EXCEPT !.st = "active"] ELSE ts[n]] :
            S \in starts}

(* Some order of the plans: a sequence with each of them once. *)
Orders(P) == {q \in [1..Cardinality(P) -> P] : \A x \in P : \E n \in DOMAIN q : q[n] = x}

(* create_tasks_batch: every bundle in one transaction, then the           *)
(* bookkeeping, then one pass of the scheduler.                            *)
Publish(a) ==
    /\ at[a].pc = "plan" /\ at[a].todo = {}
    /\ Len(tasks) + Cardinality(at[a].plans) <= MaxTasks
    /\ LET members == UNION at[a].plans
           keys == {Key(i, "grouped") : i \in members}
       IN  /\ known' = known \cup keys
           /\ seen' = seen \cup keys
           /\ IF at[a].plans = {} THEN UNCHANGED tasks
              ELSE \E q \in Orders(at[a].plans) :
                     tasks' \in Scheduled(tasks \o [n \in DOMAIN q |-> NewTask(q[n], TRUE)])
    /\ Goto(a, Idle)
    /\ UNCHANGED <<gl, aged, policy, puts, faults>>

(* The transaction fails: every row is rolled back and nothing is noted. *)
PublishFails(a) ==
    /\ at[a].pc = "plan" /\ at[a].todo = {} /\ at[a].plans # {}
    /\ Fault("store")
    /\ Goto(a, Idle)
    /\ UNCHANGED <<gl, aged, tasks, known, seen, policy, puts>>

----------------------------------------------------------------------------
(* One task an issue *)

(* The loop body up to the creation: a key seen, or known to the map, is   *)
(* skipped; any other is marked seen before its task exists.               *)
NextIssue(a) ==
    /\ at[a].pc = "fetch" /\ at[a].mode = "each"
    /\ \E i \in at[a].got :
          LET k == Key(i, "each")
              rest == [at[a] EXCEPT !.got = @ \ {i}]
          IN  /\ seen' = seen \cup {k}
              /\ Goto(a, IF k \in seen \cup known THEN rest
                         ELSE [rest EXCEPT !.pc = "create", !.cur = {i}])
    /\ UNCHANGED <<gl, aged, tasks, known, policy, puts, faults>>

CycleEnds(a) ==
    /\ at[a].pc = "fetch" /\ at[a].mode = "each" /\ at[a].todo = {} /\ at[a].got = {}
    /\ Goto(a, Idle)
    /\ UNCHANGED <<gl, aged, tasks, known, seen, policy, puts, faults>>

(* _create_task_from_issue, _create_bundle_task: the row. *)
Create(a) ==
    /\ at[a].pc = "create" /\ Len(tasks) < MaxTasks
    /\ tasks' = Append(tasks, NewTask(at[a].cur, at[a].mode = "grouped"))
    /\ Goto(a, [at[a] EXCEPT !.pc = "note"])
    /\ UNCHANGED <<gl, aged, known, seen, policy, puts, faults>>

(* The store raises: the cycle is abandoned, the request answers 500. *)
CreateFails(a) ==
    /\ at[a].pc = "create"
    /\ Fault("store")
    /\ Goto(a, Idle)
    /\ UNCHANGED <<gl, aged, tasks, known, seen, policy, puts>>

(* The map is written after the row, then the scheduler runs. *)
Note(a) ==
    /\ at[a].pc = "note"
    /\ known' = known \cup {Key(i, at[a].mode) : i \in at[a].cur}
    /\ tasks' \in Scheduled(tasks)
    /\ Goto(a, IF a = "hook" THEN Idle ELSE [at[a] EXCEPT !.pc = "fetch", !.cur = {}])
    /\ UNCHANGED <<gl, aged, seen, policy, puts, faults>>

----------------------------------------------------------------------------
(* The webhook: an event about an open issue, which GitLab may send late   *)
(* or again *)

(* What the handler turns away: bad secrets, events that are not about the *)
(* opening of an issue, projects outside the scopes, a disabled policy.    *)
webhook(i, mode) == at["hook"].pc = "idle" /\ gl[i] \in Opened /\ policy = mode

(* By issue: the map decides, and the handler goes on to create. *)
HookEach(i) ==
    /\ webhook(i, "each")
    /\ Key(i, "each") \notin known
    /\ Goto("hook", [Idle EXCEPT !.pc = "create", !.mode = "each", !.cur = {i}])
    /\ UNCHANGED <<gl, aged, tasks, known, seen, policy, puts, faults>>

(* Grouped: only band 0 is taken at once, as a bundle of one, unless it is *)
(* held or its lane has such a bundle queued.                              *)
HookGrouped(i) ==
    /\ webhook(i, "grouped") /\ gl[i] # "doomed"
    /\ Band[i] = 0
    /\ LET view == grouping_view
       IN  i \in Waiting({i}, view) /\ LaneOf[RepoOf[i]] \notin view.zero
    /\ Goto("hook", [Idle EXCEPT !.pc = "create", !.mode = "grouped", !.cur = {i}])
    /\ UNCHANGED <<gl, aged, tasks, known, seen, policy, puts, faults>>

----------------------------------------------------------------------------
(* The policy, the process, and what happens to the tasks *)

policy_write_rate_limited(n) == n > RateLimit

(* What is stored for a request that may be made: the section it carries,  *)
(* or the old one when the body does not pass validate_policy_write.       *)
policy_written(authorized) == IF authorized THEN {policy} \cup Policies ELSE {policy}

(* put_policy: the attempt counts before it is judged; a refused one (rate *)
(* limit, credential, body) stores nothing.                                *)
PutPolicy ==
    /\ puts < MaxPuts /\ faults + puts < MaxUpsets
    /\ puts' = puts + 1
    /\ \E credential \in BOOLEAN :
          policy' \in policy_written(credential /\ ~policy_write_rate_limited(puts'))
    /\ UNCHANGED <<gl, aged, tasks, known, seen, at, faults>>

(* The process dies and is started again: the store remains (the seed file *)
(* is ignored once it holds a policy), the dictionaries are empty.         *)
Restart ==
    /\ Fault("restart")
    /\ known' = {} /\ seen' = {}
    /\ at' = [a \in Actors |-> Idle]
    /\ UNCHANGED <<gl, aged, tasks, policy, puts>>

Set(n, t) == tasks' = [tasks EXCEPT ![n] = t]

Start ==
    /\ tasks' \in Scheduled(tasks) \ {tasks}
    /\ UNCHANGED <<gl, aged, known, seen, policy, puts, at, faults>>

Complete(n) ==
    /\ tasks[n].st = "active"
    /\ Set(n, [tasks[n] EXCEPT !.st = "completed"])
    /\ UNCHANGED <<gl, aged, known, seen, policy, puts, at, faults>>

Fail(n) ==
    /\ tasks[n].st = "active"
    /\ Fault("fail")
    /\ Set(n, [tasks[n] EXCEPT !.st = "failed"])
    /\ UNCHANGED <<gl, aged, known, seen, policy, puts, at>>

(* Cancelled with or without requeue (#911): at once while it waits, and   *)
(* when the worker acknowledges it once it runs.                           *)
Cancel(n) ==
    /\ tasks[n].st \in {"queued", "active", "parked"}
    /\ Fault("cancel")
    /\ \E q \in BOOLEAN :
          Set(n, [tasks[n] EXCEPT !.requeue = q,
                    !.st = IF @ = "active" THEN "stopping" ELSE IF q THEN "released" ELSE "retired"])
    /\ UNCHANGED <<gl, aged, known, seen, policy, puts, at>>

CancelAck(n) ==
    /\ tasks[n].st = "stopping"
    /\ Set(n, [tasks[n] EXCEPT !.st = IF tasks[n].requeue THEN "released" ELSE "retired"])
    /\ UNCHANGED <<gl, aged, known, seen, policy, puts, at, faults>>

(* A ballot parks a sitting until it is answered. *)
Park(n) ==
    /\ tasks[n].st = "active"
    /\ Fault("park")
    /\ Set(n, [tasks[n] EXCEPT !.st = "parked", !.wasParked = TRUE])
    /\ UNCHANGED <<gl, aged, known, seen, policy, puts, at>>

Answer(n) ==
    /\ tasks[n].st = "parked"
    /\ Set(n, [tasks[n] EXCEPT !.st = "queued"])
    /\ UNCHANGED <<gl, aged, known, seen, policy, puts, at, faults>>

Cycle(a) ==
    \/ PollStart(a) \/ TakeView(a) \/ Publish(a) \/ NextIssue(a) \/ CycleEnds(a)
    \/ \E r \in Repos : Fetch(a, r) \/ PlanRepo(a, r)

Next ==
    \/ \E i \in Issues : Open(i) \/ Clear(i) \/ Close(i) \/ Ripen(i)
    \/ \E a \in Pollers : Cycle(a) \/ PublishFails(a)
    \/ \E a \in Pollers, r \in Repos : FetchFails(a, r) \/ PlanRepoFails(a, r)
    \/ \E a \in Actors : Create(a) \/ CreateFails(a) \/ Note(a)
    \/ \E i \in Issues : HookEach(i) \/ HookGrouped(i)
    \/ PutPolicy \/ Restart \/ Start
    \/ \E n \in DOMAIN tasks :
          Complete(n) \/ Fail(n) \/ Cancel(n) \/ CancelAck(n) \/ Park(n) \/ Answer(n)

(* The poller's thread runs a cycle at every interval and the threads make *)
(* progress; sittings end, ballots are answered, workers acknowledge; MRs  *)
(* are merged, labels removed and issues grow old.                         *)
Fairness ==
    /\ \A a \in Pollers : WF_vars(Cycle(a))
    /\ \A a \in Actors : WF_vars(Create(a) \/ CreateFails(a) \/ Note(a))
    /\ WF_vars(\E i \in Issues : Clear(i) \/ Ripen(i))
    /\ WF_vars(Start \/ \E n \in DOMAIN tasks : Complete(n) \/ CancelAck(n) \/ Answer(n))

Spec == Init /\ [][Next]_vars /\ Fairness

----------------------------------------------------------------------------
(* Properties *)

Claims(t) == t.st \in Holding \cup {"completed", "retired"} /\ ~t.wasParked

(* An issue of the backlog is in one bundle at most, counting the bundles  *)
(* that are queued, running, being stopped, completed or retired: a view   *)
(* taken before other steps of the webhook, the tasks and a restart is     *)
(* still good when the batch is published ("issues already held by a       *)
(* non-terminal or completed task are never re-bundled", intake.py).       *)
(* Parked bundles are the exception the code makes (see the README).       *)
BacklogHeldOnce ==
    \A n, m \in DOMAIN tasks :
        n # m /\ tasks[n].bundle /\ tasks[m].bundle /\ Claims(tasks[n]) /\ Claims(tasks[m])
        => \A i \in tasks[n].of \cap tasks[m].of : Band[i] = 0

(* No issue is lost: under grouping, an issue that stays open is in a task *)
(* that holds it, again and again until one delivers it: the intake never  *)
(* settles in a state in which one is overlooked.                          *)
Taken(i) == \E t \in Rows : i \in t.of /\ t.st \in Holding \cup {"parked", "completed", "retired"}
Overlooked ==
    /\ policy = "grouped" /\ puts = MaxPuts /\ Len(tasks) < MaxTasks
    /\ \E i \in Issues : gl[i] \in Opened /\ ~Taken(i)
Ingested == []<>~Overlooked
=============================================================================
