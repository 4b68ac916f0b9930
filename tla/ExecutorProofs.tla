--------------------------- MODULE ExecutorProofs ---------------------------
(***************************************************************************)
(* The executor's tables keep their types, its records are its spawns,     *)
(* main's row says completed only of a task a child completed, a native    *)
(* worker runs no child twice, and a brief is delivered from one place, in *)
(* its lane's turn; for any number of tasks and lanes, and any bounds.     *)
(* None of these is inductive.  The invariants that are:                   *)
(*   TypeInv  the tables' types and what the loop's local says at each of  *)
(*            its places: a task in hand, the outcomes not yet resolved;   *)
(*   Books    between cycles records = tracked spawns, and inside a cycle  *)
(*            up to the one task that is being dropped (Leaving);          *)
(*   Honest   everything that says or will say "complete" (an exit code, a *)
(*            row, an outcome, a pending or retried report) is about a     *)
(*            task some child of which succeeded;                          *)
(*   Attended no child runs untracked or resumed, and one whose outcome is *)
(*            known runs no more;                                          *)
(*   Lines    released heads followed by the queue hold no task twice,     *)
(*            only tasks of the lane, and none that is in flight or in the *)
(*            loop's hand;                                                 *)
(*   SerialInv  a native worker has at most one task of a lane recorded or *)
(*            just spawned (NativeSerial); of a bdaya-dispatch worker at   *)
(*            most one task of a lane is in flight, and none while a       *)
(*            released head of it waits (Serial).                          *)
(* The lemmas of a family (Types.., Books.., Honest.., Settled.., Lines..) *)
(* say that its invariant is kept, one per place of the loop, then one for *)
(* everything around the loop.                                             *)
(***************************************************************************)
EXTENDS Executor, Integers, FiniteSetTheorems, SequenceTheorems, TLAPS

USE ExecutorAssumption, EndsAssumption

Found == UNION {[S -> Outcomes] : S \in SUBSET Tasks}
AtType == [pc : PCs, task : Tasks \cup {NoTask}, verb : Verbs \cup {"none"},
           todo : SUBSET Tasks, due : SUBSET (Retried \X Tasks), found : Found,
           budget : 0..MaxConcurrent, then : {"poll", "resolve", "released", "candidates"}]

(* The place after a step: at' has these fields. *)
AtIs(pc, task, verb, todo, due, found, budget, then) ==
    /\ at' \in AtType
    /\ at'.pc = pc /\ at'.task = task /\ at'.verb = verb /\ at'.todo = todo
    /\ at'.due = due /\ at'.found = found /\ at'.budget = budget /\ at'.then = then

(* The fields of the loop's place. *)
LEMMA AtFields ==
  ASSUME at \in AtType
  PROVE  /\ at.pc \in PCs /\ at.task \in Tasks \cup {NoTask} /\ at.verb \in Verbs \cup {"none"}
         /\ at.todo \in SUBSET Tasks /\ at.due \in SUBSET (Retried \X Tasks)
         /\ at.found \in Found /\ at.budget \in 0..MaxConcurrent
         /\ at.then \in {"poll", "resolve", "released", "candidates"}
  BY DEF AtType

(* Goto changes the place's pc and nothing else. *)
LEMMA AtGoto ==
  ASSUME at \in AtType, NEW p \in PCs, Goto(p)
  PROVE  AtIs(p, at.task, at.verb, at.todo, at.due, at.found, at.budget, at.then)
  BY DEF AtType, Goto, AtIs

(* The place between two cycles is one. *)
LEMMA PollType == Poll \in AtType /\ DOMAIN Poll.found = {}
  <1>1. <<>> \in [{} -> Outcomes] /\ DOMAIN <<>> = {}
    OBVIOUS
  <1>2. <<>> \in Found
    BY <1>1 DEF Found
  <1> DEFINE nil == <<>>
  <1>3. nil \in Found /\ DOMAIN nil = {}
    BY <1>1, <1>2
  <1>4. Poll = [pc |-> "poll", task |-> NoTask, verb |-> "none", todo |-> {}, due |-> {},
         found |-> nil, budget |-> 0, then |-> "poll"]
    BY DEF Poll
  <1> HIDE DEF nil
  <1> QED BY <1>3, <1>4 DEF AtType, PCs, Verbs


(* What it says: no task in hand, nothing seen, nothing to do. *)
LEMMA AtPollIs ==
  /\ Poll \in AtType /\ DOMAIN Poll.found = {}
  /\ Poll.pc = "poll" /\ Poll.task = NoTask /\ Poll.verb = "none" /\ Poll.todo = {}
  /\ Poll.due = {} /\ Poll.budget = 0 /\ Poll.then = "poll"
  BY PollType DEF Poll

(* Where poll_once starts a cycle, with every tracked task to look up. *)
LEMMA PollOnceAt ==
  ASSUME PollOnce
  PROVE  /\ at' \in AtType /\ DOMAIN at'.found = {} /\ at'.due = {} /\ at'.verb = "none"
         /\ \/ at'.pc = "drain" /\ at'.todo = {}
            \/ at'.pc = "sweep" /\ at'.todo = Tracked
  <1>1. Poll \in AtType /\ DOMAIN Poll.found = {} /\ Poll.due = {} /\ Poll.verb = "none"
        /\ Poll.todo = {}
    BY AtPollIs
  <1>2. Tracked \in SUBSET Tasks
    BY DEF Tracked
  <1>3. CASE Tracked = {}
    <2>1. at' = [Poll EXCEPT !.pc = "drain"]
      BY <1>3 DEF PollOnce
    <2> QED BY <1>1, <2>1 DEF AtType, PCs
  <1>4. CASE Tracked # {}
    <2>1. at' = [Poll EXCEPT !.pc = "sweep", !.todo = Tracked]
      BY <1>4 DEF PollOnce
    <2> HIDE DEF Tracked
    <2> QED BY <1>1, <1>2, <2>1 DEF AtType, PCs
  <1> QED BY <1>3, <1>4

(* The cancel sweep reads one row: forget the spawn and kill its child, or *)
(* go on.                                                                  *)
LEMMA SweepReadAt ==
  ASSUME at \in AtType, NEW t \in Tasks, SweepRead(t)
  PROVE  \/ /\ main[t] \in {"cancelled", "cancel_requested"}
            /\ Forget(t, Killable(t))
            /\ \E v \in {"fail", "none"} :
                  AtIs("sweep_drop", t, v, at.todo \ {t}, at.due, at.found, at.budget, at.then)
         \/ /\ UNCHANGED <<spawn, child, stray>>
            /\ AtIs("sweep", at.task, at.verb, at.todo \ {t}, at.due, at.found, at.budget, at.then)
  <1> DEFINE v == IF main[t] = "cancel_requested" THEN "fail" ELSE "none"
  <1>1. CASE /\ main[t] \in {"cancelled", "cancel_requested"} /\ Forget(t, Killable(t))
             /\ at' = [at EXCEPT !.pc = "sweep_drop", !.task = t, !.todo = @ \ {t}, !.verb = v]
    <2>1. v \in {"fail", "none"}
      OBVIOUS
    <2> HIDE DEF v
    <2>2. AtIs("sweep_drop", t, v, at.todo \ {t}, at.due, at.found, at.budget, at.then)
      BY <2>1, <1>1 DEF AtType, AtIs, PCs, Verbs
    <2> QED BY <2>1, <2>2, <1>1
  <1>2. CASE UNCHANGED <<spawn, child, stray>> /\ at' = [at EXCEPT !.todo = @ \ {t}]
    BY <1>2 DEF AtType, AtIs, SweepRead
  <1> QED BY <1>1, <1>2 DEF SweepRead

(* The record of a cancelled spawn is dropped, then its cancel             *)
(* acknowledged.                                                           *)
LEMMA SweepDropAt ==
  ASSUME at \in AtType, SweepDrop
  PROVE  \E p \in {"sweep", "sweep_ack"} :
           AtIs(p, at.task, at.verb, at.todo, at.due, at.found, at.budget, at.then)
  BY AtGoto DEF SweepDrop, PCs

(* What a reap sees of the tracked children: the ended ones' outcomes, and *)
(* those past their time, which it kills where it can.                     *)
LEMMA ReapAt ==
  ASSUME at \in AtType, Reap
  PROVE  \E seen, late \in SUBSET Tracked :
           /\ \A t \in seen : child[t] # "live"
           /\ \A t \in late : child[t] = "live"
           /\ AtIs("resolve", at.task, at.verb, at.todo, at.due,
                   [t \in seen \cup late |-> IF t \in late THEN "failure" ELSE Outcome(t)],
                   at.budget, at.then)
           /\ child' = [t \in Tasks |-> IF t \in late /\ Killable(t) THEN "none" ELSE child[t]]
  <1> DEFINE live == {t \in Tracked : child[t] = "live"}
             over == Tracked \ live
  <1>1. PICK seen \in LanesSeen(over),
             late \in IF "timeout" \in Faults THEN SUBSET live ELSE {{}} :
            /\ at' = [at EXCEPT !.pc = "resolve",
                        !.found = [t \in seen \cup late |->
                                     IF t \in late THEN "failure" ELSE Outcome(t)]]
            /\ child' = [t \in Tasks |->
                           IF t \in late /\ Killable(t) THEN "none" ELSE child[t]]
    BY DEF Reap
  <1>2. seen \in SUBSET over /\ late \in SUBSET live
    BY DEF LanesSeen
  <1>3. \A t \in Tasks : Outcome(t) \in Outcomes
    BY DEF Outcome, Outcomes
  <1> DEFINE f == [t \in seen \cup late |-> IF t \in late THEN "failure" ELSE Outcome(t)]
  <1>4. f \in [seen \cup late -> Outcomes]
    <2>1. \A t \in seen \cup late : (IF t \in late THEN "failure" ELSE Outcome(t)) \in Outcomes
      BY <1>2, <1>3 DEF Outcomes, Tracked
    <2> QED BY <2>1
  <1>5. f \in Found
    BY <1>2, <1>4 DEF Found, Tracked
  <1>6. AtIs("resolve", at.task, at.verb, at.todo, at.due, f, at.budget, at.then)
    <2> HIDE DEF f
    <2>1. at' = [at EXCEPT !.pc = "resolve", !.found = f]
      BY <1>1 DEF f
    <2> QED BY <2>1, <1>5 DEF AtType, AtIs, PCs
  <1>7. seen \in SUBSET Tracked /\ late \in SUBSET Tracked
        /\ (\A t \in seen : child[t] # "live") /\ (\A t \in late : child[t] = "live")
    BY <1>2
  <1> QED BY <1>1, <1>6, <1>7

(* The outcomes a cycle still has to resolve, as a function. *)
LEMMA FoundFun ==
  ASSUME at \in AtType
  PROVE  /\ DOMAIN at.found \in SUBSET Tasks
         /\ at.found \in [DOMAIN at.found -> Outcomes]
  BY DEF AtType, Found

(* Resolving takes one outcome out, with a report to make. *)
LEMMA ResolvedAt ==
  ASSUME at \in AtType, NEW t \in Tasks, NEW v \in Verbs \cup {"none"}, Resolved(t, v)
  PROVE  /\ t \in DOMAIN at.found /\ at.pc = "resolve"
         /\ AtIs("drop", t, v, at.todo, at.due,
                 [u \in DOMAIN at.found \ {t} |-> at.found[u]], at.budget, "resolve")
  <1> DEFINE f == [u \in DOMAIN at.found \ {t} |-> at.found[u]]
  <1>1. f \in Found
    <2>1. f \in [DOMAIN at.found \ {t} -> Outcomes] /\ DOMAIN at.found \ {t} \in SUBSET Tasks
      BY FoundFun
    <2> QED BY <2>1 DEF Found
  <1>2. at' = [at EXCEPT !.pc = "drop", !.task = t, !.verb = v, !.then = "resolve", !.found = f]
    BY DEF Resolved
  <1> HIDE DEF f
  <1>3. AtIs("drop", t, v, at.todo, at.due, f, at.budget, "resolve")
    BY <1>1, <1>2 DEF AtType, AtIs, PCs
  <1> QED BY <1>3 DEF Resolved, f

(* It forgets the spawn; complete is reported only of a child that ended   *)
(* well.                                                                   *)
LEMMA ResolveAt ==
  ASSUME at \in AtType, NEW t \in Tasks, Resolve(t)
  PROVE  /\ t \in DOMAIN at.found /\ at.pc = "resolve"
         /\ Forget(t, FALSE)
         /\ \E v \in {"complete", "fail", "block", "requeue"} :
               /\ v = "complete" => at.found[t] \in {"done", "blocked"}
               /\ AtIs("drop", t, v, at.todo, at.due,
                       [u \in DOMAIN at.found \ {t} |-> at.found[u]], at.budget, "resolve")
  <1>1. PICK v \in Verbs : Resolved(t, v) /\ v \in VerbsOf(at.found[t])
    BY DEF Resolve
  <1>2. at.found[t] \in Outcomes
    BY <1>1, FoundFun DEF Resolved
  <1>3. v \in {"complete", "fail", "block", "requeue"}
        /\ (v = "complete" => at.found[t] \in {"done", "blocked"})
    BY <1>1, <1>2 DEF VerbsOf, Outcomes
  <1> QED BY <1>1, <1>3, ResolvedAt DEF Resolved

(* The record goes, then the report is made, if there is one. *)
LEMMA DropAt ==
  ASSUME at \in AtType, Drop
  PROVE  \/ /\ at.verb = "none"
            /\ AtIs(at.then, at.task, at.verb, at.todo, at.due, at.found, at.budget, at.then)
         \/ /\ at.verb # "none"
            /\ AtIs("report", at.task, at.verb, at.todo, at.due, at.found, at.budget, at.then)
  BY AtGoto, AtFields DEF Drop, PCs

(* The reports a drain will retry: some that are pending. *)
LEMMA DrainStartAt ==
  ASSUME at \in AtType, DOMAIN pending = Retried \X Tasks, DrainStart
  PROVE  \E due \in SUBSET {r \in Retried \X Tasks : pending[r] > 0} :
           AtIs("post", at.task, at.verb, at.todo, due, at.found, at.budget, at.then)
  <1>1. PICK due \in SUBSET {r \in DOMAIN pending : pending[r] > 0} :
           at' = [at EXCEPT !.pc = "post", !.due = due]
    BY DEF DrainStart
  <1>2. due \in SUBSET (Retried \X Tasks)
    OBVIOUS
  <1> QED BY <1>1, <1>2 DEF AtType, AtIs, PCs

(* A retried report leaves the drain's list. *)
LEMMA DrainPostAt ==
  ASSUME at \in AtType, NEW r, DrainPost(r)
  PROVE  /\ r \in at.due /\ at.pc = "post"
         /\ AtIs("post", at.task, at.verb, at.todo, at.due \ {r}, at.found, at.budget, at.then)
  BY DEF AtType, AtIs, PCs, DrainPost

(* There are finitely many tracked spawns: their number is the load. *)
LEMMA TrackedFinite ==
  IsFiniteSet(Tracked) /\ Cardinality(Tracked) \in Nat /\ Tracked \in SUBSET Tasks
  BY FS_Subset, FS_CardinalityType DEF Tracked

(* After the renewals the cycle ends, or claims with what room there is. *)
LEMMA RenewAt ==
  ASSUME at \in AtType, Renew
  PROVE  \/ at' = Poll
         \/ \E b \in 0..MaxConcurrent :
              AtIs("claim", at.task, at.verb, at.todo, at.due, at.found, b, at.then)
  <1>1. Cardinality(Tracked) \in Nat
    BY TrackedFinite
  <1>2. CASE Cardinality(Tracked) >= MaxConcurrent
    BY <1>2 DEF Renew
  <1>3. CASE ~(Cardinality(Tracked) >= MaxConcurrent)
    <2> DEFINE b == MaxConcurrent - Cardinality(Tracked)
    <2>1. b \in 0..MaxConcurrent
      BY <1>1, <1>3
    <2>2. at' = [at EXCEPT !.pc = "claim", !.budget = b]
      BY <1>3 DEF Renew
    <2> HIDE DEF b
    <2> QED BY <2>1, <2>2 DEF AtType, AtIs, PCs
  <1> QED BY <1>2, <1>3

(* A released head is taken in hand, at the cost of one slot. *)
LEMMA SpawnReleasedAt ==
  ASSUME at \in AtType, NEW k \in Lanes, released \in [Lanes -> Seq(Tasks)], SpawnReleased(k)
  PROVE  /\ Head(released[k]) \in Tasks
         /\ \E b \in 0..MaxConcurrent :
              AtIs("spawn", Head(released[k]), at.verb, at.todo, at.due, at.found, b, "released")
  <1>1. Head(released[k]) \in Tasks
    BY DEF SpawnReleased
  <1> DEFINE b == at.budget - 1
             h == Head(released[k])
  <1>2. b \in 0..MaxConcurrent /\ h \in Tasks
    BY <1>1, AtFields DEF SpawnReleased
  <1>3. at' = [at EXCEPT !.pc = "spawn", !.task = h, !.budget = b, !.then = "released"]
    BY DEF SpawnReleased
  <1> HIDE DEF b, h
  <1>4. AtIs("spawn", h, at.verb, at.todo, at.due, at.found, b, "released")
    BY <1>2, <1>3 DEF AtType, AtIs, PCs
  <1> QED BY <1>1, <1>2, <1>4 DEF h

(* The claim fetches the candidates main offers, or ends the cycle. *)
LEMMA FetchAt ==
  ASSUME at \in AtType, Fetch
  PROVE  \/ at' = Poll
         \/ AtIs("candidates", at.task, at.verb, Candidates, at.due, at.found, at.budget, at.then)
  <1>1. Candidates \in SUBSET Tasks
    BY DEF Candidates
  <1>2. CASE at' = [at EXCEPT !.pc = "candidates", !.todo = Candidates]
    <2> DEFINE C == Candidates
    <2>1. at' = [at EXCEPT !.pc = "candidates", !.todo = C] /\ C \in SUBSET Tasks
      BY <1>1, <1>2
    <2> HIDE DEF C
    <2>2. AtIs("candidates", at.task, at.verb, C, at.due, at.found, at.budget, at.then)
      BY <2>1 DEF AtType, AtIs, PCs
    <2> QED BY <2>2 DEF C
  <1> QED BY <1>2 DEF Fetch

(* A task joins its lane's queue. *)
Joins(t) == fifo' = [fifo EXCEPT ![Lane[t]] = Append(@, t)]

(* _queue_for_lane appends the task, or does nothing. *)
LEMMA QueueJoins ==
  ASSUME NEW t \in Tasks, NEW n, _queue_for_lane(t, n)
  PROVE  UNCHANGED fifo \/ Joins(t)
  BY DEF _queue_for_lane, Joins

(* A candidate is skipped, queued behind its lane, or taken in hand, its   *)
(* lane free.                                                              *)
LEMMA CandidateAt ==
  ASSUME at \in AtType, NEW t \in Tasks, Candidate(t)
  PROVE  /\ t \in at.todo /\ at.pc = "candidates"
         /\ \/ /\ AtIs("candidates", at.task, at.verb, at.todo \ {t}, at.due, at.found,
                        at.budget, at.then)
               /\ \/ UNCHANGED fifo
                  \/ Joins(t) /\ Lane[t] \in Lanes
            \/ /\ UNCHANGED fifo
               /\ Lane[t] # NoLane => ~LaneBusy(Lane[t])
               /\ \E b \in 0..MaxConcurrent :
                    AtIs("spawn", t, at.verb, at.todo \ {t}, at.due, at.found, b, "candidates")
  <1> DEFINE next == [at EXCEPT !.todo = @ \ {t}]
             b == at.budget - 1
  <1>1. next \in AtType /\ next.todo = at.todo \ {t} /\ next.pc = at.pc /\ next.task = at.task
        /\ next.verb = at.verb /\ next.due = at.due /\ next.found = at.found
        /\ next.budget = at.budget /\ next.then = at.then
    BY DEF AtType
  <1>2. t \in at.todo /\ at.pc = "candidates"
    BY DEF Candidate
  <1>3. CASE at' = next /\ (UNCHANGED fifo \/ (Joins(t) /\ Lane[t] # NoLane))
    <2> HIDE DEF next
    <2> QED BY <1>1, <1>2, <1>3 DEF AtIs
  <1>4. CASE /\ at.budget # 0 /\ UNCHANGED fifo /\ (Lane[t] # NoLane => ~LaneBusy(Lane[t]))
             /\ at' = [next EXCEPT !.pc = "spawn", !.task = t, !.budget = @ - 1, !.then = "candidates"]
    <2>1. b \in 0..MaxConcurrent
      BY <1>4, AtFields
    <2>2. at' = [next EXCEPT !.pc = "spawn", !.task = t, !.budget = b, !.then = "candidates"]
      BY <1>1, <1>4
    <2> HIDE DEF next, b
    <2>3. AtIs("spawn", t, at.verb, at.todo \ {t}, at.due, at.found, b, "candidates")
      BY <1>1, <2>1, <2>2 DEF AtType, AtIs, PCs
    <2> QED BY <1>2, <1>4, <2>1, <2>3
  <1> QED BY <1>3, <1>4, QueueJoins DEF Candidate

(* A child that could not be started is reported as failed. *)
LEMMA PopenFailedAt ==
  ASSUME at \in AtType, PopenFailed
  PROVE  AtIs("report", at.task, "fail", at.todo, at.due, at.found, at.budget, at.then)
  BY DEF AtType, AtIs, PCs, Verbs, PopenFailed

----------------------------------------------------------------------------
(* Types *)

(* TypeOK without the place. *)
TablesOK ==
    /\ native \in Modes
    /\ main \in [Tasks -> {"new", "away", "running", "cancel_requested",
                           "cancelled", "completed", "failed"}]
    /\ spawn \in [Tasks -> {"none", "own", "resumed"}]
    /\ child \in [Tasks -> {"none", "live"} \cup Exits]
    /\ stray \subseteq Tasks /\ records \subseteq Tasks /\ cooling \subseteq Tasks
    /\ sound \subseteq Tasks
    /\ fifo \in [Lanes -> Seq(Tasks)] /\ released \in [Lanes -> Seq(Tasks)]
    /\ busy \in [Tasks -> 0..MaxRetries]
    /\ pending \in [Retried \X Tasks -> 0..(MaxAttempts - 1)]
    /\ placed \in [Lanes -> {"none", "here", "there"}]
    /\ losses \in 0..MaxLosses /\ crashes \in 0..MaxCrashes

(* The types of the tables and of the loop's place. *)
LEMMA TypeSplit == TypeOK <=> TablesOK /\ at \in AtType
  BY DEF TypeOK, TablesOK, AtType, Found

(* The same after a step. *)
LEMMA TypeSplitPrime == TypeOK' <=> TablesOK' /\ at' \in AtType
  BY DEF TypeOK, TablesOK, AtType, Found

(* What the place says of the step in hand. *)
AtOK ==
    /\ at.pc \in {"sweep_drop", "sweep_ack", "drop", "report", "spawn", "track"} =>
          at.task \in Tasks
    /\ at.pc = "drop" => at.then = "resolve" /\ at.verb # "release"
    /\ at.pc = "report" =>
          /\ at.verb \in {"complete", "fail", "block", "requeue"}
          /\ at.then \in {"resolve", "released", "candidates"}
    /\ at.pc \in {"spawn", "track"} => at.then \in {"released", "candidates"}

TypeInv == TablesOK /\ at \in AtType /\ AtOK

(* A task in hand whose lane is busy is queued, and the loop goes on. *)
LEMMA SpawnQueuedAt ==
  ASSUME TypeInv, SpawnQueued
  PROVE  /\ at.pc = "spawn" /\ at.task \in Tasks /\ Lane[at.task] \in Lanes /\ native
         /\ at.then \in {"released", "candidates"}
         /\ AtIs(at.then, at.task, at.verb, at.todo, at.due, at.found, at.budget, at.then)
         /\ UNCHANGED fifo \/ Joins(at.task)
  <1>1. at.pc = "spawn" /\ at.task \in Tasks /\ at.then \in {"released", "candidates"} /\ at \in AtType
    BY DEF SpawnQueued, TypeInv, AtOK
  <1>2. AtIs(at.then, at.task, at.verb, at.todo, at.due, at.found, at.budget, at.then)
    BY <1>1, AtGoto DEF SpawnQueued, PCs
  <1>3. native /\ Lane[at.task] \in Lanes
    BY <1>1 DEF SpawnQueued, Guarded
  <1>4. UNCHANGED fifo \/ Joins(at.task)
    BY <1>1, QueueJoins DEF SpawnQueued
  <1> QED BY <1>1, <1>2, <1>3, <1>4

(* A request to main: main's row takes a status, and completed only by a   *)
(* complete.                                                               *)
LEMMA ExchangeTypes ==
  ASSUME TablesOK, NEW v \in Verbs, NEW t \in Tasks, NEW got \in BOOLEAN, Exchange(v, t, got)
  PROVE  /\ main' \in [Tasks -> {"new", "away", "running", "cancel_requested",
                                 "cancelled", "completed", "failed"}]
         /\ losses' \in 0..MaxLosses
         /\ \A u \in Tasks : main'[u] = "completed" =>
                main[u] = "completed" \/ (u = t /\ v = "complete")
  <1> DEFINE St == {"new", "away", "running", "cancel_requested",
                    "cancelled", "completed", "failed"}
  <1>0. main \in [Tasks -> St] /\ losses \in 0..MaxLosses
    BY DEF TablesOK
  <1>1. \A s \in Applied(v, t) : s \in St /\ (s = "completed" => v = "complete")
    BY DEF Applied, Verbs
  <1>2. ASSUME NEW s \in Applied(v, t), main' = [main EXCEPT ![t] = s]
        PROVE  /\ main' \in [Tasks -> St]
               /\ \A u \in Tasks : main'[u] = "completed" =>
                     main[u] = "completed" \/ (u = t /\ v = "complete")
    BY <1>0, <1>1, <1>2
  <1>3. \/ UNCHANGED main
        \/ \E s \in Applied(v, t) : main' = [main EXCEPT ![t] = s]
    BY DEF Exchange
  <1>4. losses' \in 0..MaxLosses
    BY <1>0 DEF Exchange
  <1> QED BY <1>0, <1>2, <1>3, <1>4

(* Forgetting a spawn takes it out of the tracked ones. *)
LEMMA ForgetTypes ==
  ASSUME TablesOK, NEW t \in Tasks, NEW b \in BOOLEAN, Forget(t, b)
  PROVE  /\ spawn' \in [Tasks -> {"none", "own", "resumed"}]
         /\ child' \in [Tasks -> {"none", "live"} \cup Exits]
         /\ stray' \subseteq Tasks
         /\ Tracked' = Tracked \ {t}
  BY DEF TablesOK, Forget, Tracked

(* Steps that move the loop on and touch nothing else. *)
LEMMA TypesQuiet ==
  ASSUME TypeInv, UNCHANGED native,
         PollOnce \/ SweepEnd \/ ResolveEnd \/ DrainStart \/ DrainEnd \/ Renew \/ Gate
         \/ CandidatesEnd \/ Fetch \/ PopenFailed
  PROVE  TypeInv'
  <1> USE DEF TypeInv
  <1>1. TablesOK'
    <2>1. UNCHANGED <<native, main, spawn, child, stray, records, fifo, released, busy, cooling,
                      pending, placed, crashes, sound>>
      BY DEF PollOnce, SweepEnd, ResolveEnd, DrainStart, DrainEnd, Renew, Gate,
             CandidatesEnd, Fetch, PopenFailed
    <2>2. UNCHANGED losses \/ Unread
      BY DEF PollOnce, SweepEnd, ResolveEnd, DrainStart, DrainEnd, Renew, Gate,
             CandidatesEnd, Fetch, PopenFailed
    <2>3. losses' \in 0..MaxLosses
      BY <2>2 DEF TablesOK, Unread
    <2> QED BY <2>1, <2>3 DEF TablesOK
  <1>2. at' \in AtType /\ at'.pc \notin {"sweep_drop", "sweep_ack", "drop", "report", "spawn", "track"}
        => TypeInv'
    BY <1>1 DEF AtOK
  <1>3. at' = Poll => TypeInv'
    BY <1>2, AtPollIs
  <1>4. CASE PollOnce
    BY <1>2, <1>4, PollOnceAt
  <1>5. CASE SweepEnd \/ ResolveEnd \/ DrainEnd
    <2>1. PICK p \in {"drain", "reap", "lanes"} : Goto(p)
      BY <1>5 DEF SweepEnd, ResolveEnd, DrainEnd, AtReap
    <2> QED BY <1>2, <2>1, AtGoto DEF AtIs, PCs
  <1>6. CASE DrainStart
    <2>1. DOMAIN pending = Retried \X Tasks
      BY DEF TablesOK
    <2> QED BY <1>2, <1>6, <2>1, DrainStartAt DEF AtIs
  <1>7. CASE Renew
    BY <1>2, <1>3, <1>7, RenewAt DEF AtIs
  <1>8. CASE Gate
    BY <1>2, <1>3, <1>8, AtGoto DEF AtIs, Gate, PCs
  <1>9. CASE CandidatesEnd
    BY <1>3, <1>9 DEF CandidatesEnd
  <1>10. CASE Fetch
    BY <1>2, <1>3, <1>10, FetchAt DEF AtIs
  <1>11. CASE PopenFailed
    <2>1. at.task \in Tasks /\ at.then \in {"released", "candidates"}
      BY <1>11 DEF PopenFailed, AtOK
    <2> QED BY <1>1, <1>11, <2>1, PopenFailedAt DEF AtOK, AtIs
  <1> QED BY <1>4, <1>5, <1>6, <1>7, <1>8, <1>9, <1>10, <1>11

(* The requests about the task in hand. *)
LEMMA TypesAsk ==
  ASSUME TypeInv, UNCHANGED native,
         SweepAck \/ Report \/ _report_blocked \/ _requeue_task \/ ReleaseMisplaced
  PROVE  TypeInv'
  <1> USE DEF TypeInv
  <1>1. at.task \in Tasks
    BY DEF AtOK, SweepAck, Report, _report_blocked, _requeue_task, ReportOnce, ReleaseMisplaced
  <1>2. PICK v \in Verbs, got \in BOOLEAN : Exchange(v, at.task, got)
    BY DEF SweepAck, Report, _report_blocked, _requeue_task, ReportOnce, ReleaseMisplaced,
           Verbs, Retried
  <1>3. PICK p \in {"sweep", "resolve", "released", "candidates"} : Goto(p)
    BY DEF AtOK, SweepAck, Report, _report_blocked, _requeue_task, ReportOnce, ReleaseMisplaced
  <1>4. at' \in AtType /\ AtOK'
    BY <1>3, AtGoto DEF AtIs, AtOK, PCs
  <1>5. pending' \in [Retried \X Tasks -> 0..(MaxAttempts - 1)]
    <2>1. pending \in [Retried \X Tasks -> 0..(MaxAttempts - 1)]
      BY DEF TablesOK
    <2>2. 1 \in 0..(MaxAttempts - 1)
      OBVIOUS
    <2>3. CASE UNCHANGED pending
      BY <2>1, <2>3
    <2>4. CASE pending' = [pending EXCEPT ![<<at.verb, at.task>>] = 1]
      BY <2>1, <2>2, <2>4
    <2> QED BY <2>3, <2>4 DEF SweepAck, Report, _report_blocked, _requeue_task, ReportOnce,
                              ReleaseMisplaced
  <1>6. TablesOK'
    BY <1>1, <1>2, <1>5, ExchangeTypes
       DEF TablesOK, SweepAck, Report, _report_blocked, _requeue_task, ReportOnce, ReleaseMisplaced
  <1> QED BY <1>4, <1>6

(* Types: a retried report. *)
LEMMA TypesPost ==
  ASSUME TypeInv, UNCHANGED native, NEW r \in Retried \X Tasks, DrainPost(r)
  PROVE  TypeInv'
  <1> USE DEF TypeInv
  <1>1. PICK got \in BOOLEAN :
          /\ Exchange(r[1], r[2], got)
          /\ pending' = [pending EXCEPT ![r] =
                          IF got \/ @ + 1 >= MaxAttempts THEN 0 ELSE @ + 1]
    BY DEF DrainPost
  <1>2. r[1] \in Verbs /\ r[2] \in Tasks
    BY DEF Retried, Verbs
  <1>3. pending' \in [Retried \X Tasks -> 0..(MaxAttempts - 1)]
    <2> DEFINE n == IF got \/ pending[r] + 1 >= MaxAttempts THEN 0 ELSE pending[r] + 1
    <2>1. pending \in [Retried \X Tasks -> 0..(MaxAttempts - 1)]
      BY DEF TablesOK
    <2>2. n \in 0..(MaxAttempts - 1)
      <3>1. pending[r] \in 0..(MaxAttempts - 1)
        BY <2>1
      <3> QED BY <3>1
    <2>3. pending' = [pending EXCEPT ![r] = n]
      BY <1>1, <2>1
    <2> QED BY <2>1, <2>2, <2>3
  <1>4. TablesOK'
    <2>1. main' \in [Tasks -> {"new", "away", "running", "cancel_requested",
                              "cancelled", "completed", "failed"}] /\ losses' \in 0..MaxLosses
      BY <1>1, <1>2, ExchangeTypes
    <2>2. UNCHANGED <<native, spawn, child, stray, records, fifo, released, busy, cooling,
                      placed, crashes, sound>>
      BY DEF DrainPost
    <2> QED BY <1>3, <2>1, <2>2 DEF TablesOK
  <1> QED BY <1>4, DrainPostAt DEF AtIs, AtOK

(* Types: the cancel sweep. *)
LEMMA TypesSweep ==
  ASSUME TypeInv, UNCHANGED native, SweepDrop \/ \E t \in Tasks : SweepRead(t)
  PROVE  TypeInv'
  <1> USE DEF TypeInv
  <1>1. CASE SweepDrop
    <2>1. at.task \in Tasks
      BY <1>1 DEF SweepDrop, AtOK
    <2>2. 0 \in 0..MaxRetries
      OBVIOUS
    <2>3. TablesOK'
      BY <1>1, <2>1, <2>2 DEF TablesOK, SweepDrop
    <2> QED BY <1>1, <2>1, <2>3, SweepDropAt DEF AtOK, AtIs
  <1>2. ASSUME NEW t \in Tasks, SweepRead(t)
        PROVE  TypeInv'
    <2>1. Killable(t) \in BOOLEAN
      BY DEF Killable
    <2>2. \/ Forget(t, Killable(t))
          \/ UNCHANGED <<spawn, child, stray>>
      BY <1>2 DEF SweepRead
    <2>3. TablesOK'
      <3>1. /\ spawn' \in [Tasks -> {"none", "own", "resumed"}]
            /\ child' \in [Tasks -> {"none", "live"} \cup Exits]
            /\ stray' \subseteq Tasks
        BY <2>1, <2>2, ForgetTypes DEF TablesOK
      <3>2. losses' \in 0..MaxLosses
        <4>1. UNCHANGED losses \/ Unread
          BY <1>2 DEF SweepRead
        <4> QED BY <4>1 DEF TablesOK, Unread
      <3>3. UNCHANGED <<main, records, fifo, released, busy, cooling, pending, placed,
                        crashes, sound>>
        BY <1>2 DEF SweepRead
      <3> QED BY <3>1, <3>2, <3>3 DEF TablesOK
    <2>4. at' \in AtType /\ AtOK'
      BY <1>2, SweepReadAt DEF AtOK, AtIs
    <2> QED BY <2>3, <2>4
  <1> QED BY <1>1, <1>2

(* A task's lane, if it has one, is a lane. *)
LEMMA LaneTyped == \A t \in Tasks : Lane[t] # NoLane => Lane[t] \in Lanes
  OBVIOUS

(* Types: a brief joins its lane's queue. *)
LEMMA QueueTypes ==
  ASSUME TablesOK, NEW t \in Tasks, NEW n \in 0..MaxRetries, _queue_for_lane(t, n)
  PROVE  /\ fifo' \in [Lanes -> Seq(Tasks)]
         /\ busy' \in [Tasks -> 0..MaxRetries] /\ cooling' \subseteq Tasks
  <1>1. /\ fifo \in [Lanes -> Seq(Tasks)]
        /\ busy \in [Tasks -> 0..MaxRetries] /\ cooling \subseteq Tasks
    BY DEF TablesOK
  <1>2. fifo' \in [Lanes -> Seq(Tasks)]
    <2> DEFINE q == Append(fifo[Lane[t]], t)
    <2>1. CASE Joins(t)
      <3>1. Lane[t] \in Lanes => q \in Seq(Tasks)
        BY <1>1
      <3>2. fifo' = [fifo EXCEPT ![Lane[t]] = q]
        BY <2>1 DEF Joins
      <3> HIDE DEF q
      <3> QED BY <1>1, <3>1, <3>2
    <2> QED BY <1>1, <2>1, QueueJoins
  <1>3. busy' \in [Tasks -> 0..MaxRetries] /\ cooling' \subseteq Tasks
    BY <1>1 DEF _queue_for_lane
  <1> QED BY <1>2, <1>3

(* Types: an outcome is resolved. *)
LEMMA TypesResolve ==
  ASSUME TypeInv, UNCHANGED native, NEW t \in Tasks, RequeueBusyRefusal(t) \/ Resolve(t)
  PROVE  TypeInv'
  <1> USE DEF TypeInv
  <1>1. Forget(t, FALSE) /\ at' \in AtType /\ AtOK'
    <2>1. CASE Resolve(t)
      BY <2>1, ResolveAt DEF AtOK, AtIs
    <2>2. CASE RequeueBusyRefusal(t)
      <3>1. Resolved(t, "none")
        BY <2>2 DEF RequeueBusyRefusal
      <3>2. AtIs("drop", t, "none", at.todo, at.due,
                 [u \in DOMAIN at.found \ {t} |-> at.found[u]], at.budget, "resolve")
        BY <3>1, ResolvedAt
      <3> QED BY <3>1, <3>2 DEF AtOK, AtIs, Resolved
    <2> QED BY <2>1, <2>2
  <1>2. /\ spawn' \in [Tasks -> {"none", "own", "resumed"}]
        /\ child' \in [Tasks -> {"none", "live"} \cup Exits]
        /\ stray' \subseteq Tasks
    BY <1>1, ForgetTypes
  <1>3. busy' \in [Tasks -> 0..MaxRetries] /\ cooling' \subseteq Tasks
    <2>1. busy \in [Tasks -> 0..MaxRetries] /\ cooling \subseteq Tasks /\ 0 \in 0..MaxRetries
      BY DEF TablesOK
    <2>2. CASE Resolve(t)
      BY <2>1, <2>2 DEF Resolve
    <2>3. CASE RequeueBusyRefusal(t)
      <3> DEFINE n == busy[t] + 1
      <3>1. n \in 0..MaxRetries
        BY <2>1, <2>3 DEF RequeueBusyRefusal, Retriable
      <3>2. _queue_for_lane(t, n)
        BY <2>3 DEF RequeueBusyRefusal
      <3> HIDE DEF n
      <3> QED BY <3>1, <3>2, QueueTypes
    <2> QED BY <2>2, <2>3
  <1>4. placed' \in [Lanes -> {"none", "here", "there"}]
    BY DEF TablesOK, RequeueBusyRefusal, Resolve, _touch_lane_from_spawn
  <1>5. fifo' \in [Lanes -> Seq(Tasks)]
    <2>1. CASE Resolve(t)
      BY <2>1 DEF TablesOK, Resolve
    <2>2. CASE RequeueBusyRefusal(t)
      <3> DEFINE n == busy[t] + 1
      <3>1. n \in 0..MaxRetries
        BY <2>2 DEF TablesOK, RequeueBusyRefusal, Retriable
      <3>2. _queue_for_lane(t, n)
        BY <2>2 DEF RequeueBusyRefusal
      <3> HIDE DEF n
      <3> QED BY <3>1, <3>2, QueueTypes
    <2> QED BY <2>1, <2>2
  <1>6. UNCHANGED <<main, records, released, pending, losses, crashes, sound>>
    BY DEF RequeueBusyRefusal, Resolve
  <1> QED BY <1>1, <1>2, <1>3, <1>4, <1>5, <1>6 DEF TablesOK

(* Types: the reap. *)
LEMMA TypesReap ==
  ASSUME TypeInv, UNCHANGED native, Reap
  PROVE  TypeInv'
  <1> USE DEF TypeInv
  <1>1. PICK late \in SUBSET Tracked :
          child' = [t \in Tasks |-> IF t \in late /\ Killable(t) THEN "none" ELSE child[t]]
    BY ReapAt
  <1>2. child' \in [Tasks -> {"none", "live"} \cup Exits]
    BY <1>1 DEF TablesOK
  <1>3. UNCHANGED <<main, spawn, stray, records, fifo, released, busy, cooling,
                   pending, placed, losses, crashes, sound>>
    BY DEF Reap
  <1>4. at' \in AtType /\ at'.pc = "resolve"
    BY ReapAt DEF AtIs
  <1> QED BY <1>2, <1>3, <1>4 DEF TablesOK, AtOK

(* Types: a record is dropped. *)
LEMMA TypesDrop ==
  ASSUME TypeInv, UNCHANGED native, Drop
  PROVE  TypeInv'
  <1> USE DEF TypeInv
  <1>1. at.task \in Tasks /\ at.then = "resolve" /\ at.verb # "release" /\ at.verb \in Verbs \cup {"none"}
    BY AtFields DEF AtOK, Drop
  <1>2. at' \in AtType /\ AtOK'
    BY <1>1, DropAt DEF AtOK, AtIs, Verbs
  <1>3. TablesOK'
    BY DEF TablesOK, Drop
  <1> QED BY <1>2, <1>3

(* Types: the sweep of the lanes' queues, and heads left over. *)
LEMMA TypesQueues ==
  ASSUME TypeInv, UNCHANGED native, ReapIdleLanes \/ SweepLaneQueues \/ Leftover
  PROVE  TypeInv'
  <1> USE DEF TypeInv
  <1>0. fifo \in [Lanes -> Seq(Tasks)] /\ released \in [Lanes -> Seq(Tasks)]
        /\ placed \in [Lanes -> {"none", "here", "there"}]
    BY DEF TablesOK
  <1>1. CASE ReapIdleLanes
    <2>1. placed' \in [Lanes -> {"none", "here", "there"}]
      BY <1>0, <1>1 DEF ReapIdleLanes
    <2>2. AtIs("queues", at.task, at.verb, at.todo, at.due, at.found, at.budget, at.then)
      BY <1>1, AtGoto DEF ReapIdleLanes, PCs
    <2>3. UNCHANGED <<main, spawn, child, stray, records, fifo, released, busy,
                      cooling, pending, losses, crashes, sound>>
      BY <1>1 DEF ReapIdleLanes
    <2> QED BY <2>1, <2>2, <2>3 DEF TablesOK, AtOK, AtIs
  <1>2. CASE SweepLaneQueues
    <2>1. \A k \in Lanes : Releasable(k) =>
            Tail(fifo[k]) \in Seq(Tasks) /\ Append(released[k], Head(fifo[k])) \in Seq(Tasks)
      BY <1>0 DEF Releasable
    <2>2. fifo' \in [Lanes -> Seq(Tasks)] /\ released' \in [Lanes -> Seq(Tasks)]
      BY <1>0, <1>2, <2>1 DEF SweepLaneQueues
    <2>3. AtIs("renew", at.task, at.verb, at.todo, at.due, at.found, at.budget, at.then)
      BY <1>2, AtGoto DEF SweepLaneQueues, PCs
    <2>4. UNCHANGED <<main, spawn, child, stray, records, busy, cooling, pending,
                      placed, losses, crashes, sound>>
      BY <1>2 DEF SweepLaneQueues
    <2> QED BY <2>2, <2>3, <2>4 DEF TablesOK, AtOK, AtIs
  <1>3. CASE Leftover
    <2>1. \A k \in Lanes : released[k] \o fifo[k] \in Seq(Tasks) /\ <<>> \in Seq(Tasks)
      BY <1>0
    <2>2. fifo' \in [Lanes -> Seq(Tasks)] /\ released' \in [Lanes -> Seq(Tasks)]
      BY <1>3, <2>1 DEF Leftover
    <2>3. UNCHANGED <<main, spawn, child, stray, records, busy, cooling, pending,
                      placed, losses, crashes, sound>> /\ at' = Poll
      BY <1>3 DEF Leftover
    <2> QED BY <2>2, <2>3, AtPollIs DEF TablesOK, AtOK
  <1> QED BY <1>1, <1>2, <1>3

(* Types: the loop takes a brief in hand. *)
LEMMA TypesChoose ==
  ASSUME TypeInv, UNCHANGED native,
         (\E k \in Lanes : SpawnReleased(k)) \/ (\E t \in Tasks : Candidate(t))
  PROVE  TypeInv'
  <1> USE DEF TypeInv
  <1>0. fifo \in [Lanes -> Seq(Tasks)] /\ released \in [Lanes -> Seq(Tasks)]
    BY DEF TablesOK
  <1>1. ASSUME NEW k \in Lanes, SpawnReleased(k)
        PROVE  TypeInv'
    <2>1. Tail(released[k]) \in Seq(Tasks)
      <3>1. released[k] \in Seq(Tasks) /\ released[k] # <<>>
        BY <1>0, <1>1 DEF SpawnReleased
      <3> QED BY <3>1, HeadTailProperties
    <2>2. released' \in [Lanes -> Seq(Tasks)]
      BY <1>0, <1>1, <2>1 DEF SpawnReleased
    <2>3. Head(released[k]) \in Tasks /\ at' \in AtType /\ at'.pc = "spawn"
          /\ at'.task = Head(released[k]) /\ at'.then = "released"
      BY <1>0, <1>1, SpawnReleasedAt DEF AtIs
    <2>4. UNCHANGED <<main, spawn, child, stray, records, fifo, busy, cooling,
                      pending, placed, losses, crashes, sound>>
      BY <1>1 DEF SpawnReleased
    <2> QED BY <2>2, <2>3, <2>4 DEF TablesOK, AtOK
  <1>2. ASSUME NEW t \in Tasks, Candidate(t)
        PROVE  TypeInv'
    <2>1. /\ fifo' \in [Lanes -> Seq(Tasks)]
          /\ busy' \in [Tasks -> 0..MaxRetries] /\ cooling' \subseteq Tasks
      <3>1. _queue_for_lane(t, 0) \/ UNCHANGED <<fifo, busy, cooling>>
        BY <1>2 DEF Candidate
      <3>2. 0 \in 0..MaxRetries
        OBVIOUS
      <3> QED BY <3>1, <3>2, QueueTypes DEF TablesOK
    <2>2. at' \in AtType /\ AtOK'
      BY <1>2, CandidateAt DEF AtIs, AtOK
    <2>3. UNCHANGED <<main, spawn, child, stray, records, released, pending, placed,
                      losses, crashes, sound>>
      BY <1>2 DEF Candidate
    <2> QED BY <2>1, <2>2, <2>3 DEF TablesOK
  <1> QED BY <1>1, <1>2

(* Types: a task in hand is queued, or its child starts and is tracked. *)
LEMMA TypesSpawn ==
  ASSUME TypeInv, UNCHANGED native, SpawnQueued \/ Popen \/ Track
  PROVE  TypeInv'
  <1> USE DEF TypeInv
  <1>0. at.task \in Tasks /\ at.then \in {"released", "candidates"}
    BY DEF SpawnQueued, Popen, Track, AtOK
  <1>3. CASE SpawnQueued
    <2>1. busy[at.task] \in 0..MaxRetries /\ _queue_for_lane(at.task, busy[at.task])
      BY <1>0, <1>3 DEF SpawnQueued, TablesOK
    <2>2. /\ fifo' \in [Lanes -> Seq(Tasks)]
          /\ busy' \in [Tasks -> 0..MaxRetries] /\ cooling' \subseteq Tasks
      BY <1>0, <2>1, QueueTypes
    <2>3. UNCHANGED <<main, spawn, child, stray, records, released, pending, placed,
                      losses, crashes, sound>>
      BY <1>3 DEF SpawnQueued
    <2>4. TablesOK'
      BY <2>2, <2>3 DEF TablesOK
    <2> QED BY <1>0, <1>3, <2>4, SpawnQueuedAt DEF AtOK, AtIs
  <1>1. CASE Popen
    <2>1. AtIs("track", at.task, at.verb, at.todo, at.due, at.found, at.budget, at.then)
      BY <1>1, AtGoto DEF Popen, PCs
    <2>2. TablesOK'
      BY <1>0, <1>1 DEF TablesOK, Popen
    <2> QED BY <1>0, <2>1, <2>2 DEF AtOK, AtIs
  <1>2. CASE Track
    <2>1. AtIs(at.then, at.task, at.verb, at.todo, at.due, at.found, at.budget, at.then)
      BY <1>0, <1>2, AtGoto DEF Track, PCs
    <2>2. TablesOK'
      BY <1>0, <1>2 DEF TablesOK, Track
    <2> QED BY <1>0, <2>1, <2>2 DEF AtOK, AtIs
  <1> QED BY <1>1, <1>2, <1>3

(* Types: main, the children, the clock and a crash. *)
LEMMA TypesAround ==
  ASSUME TypeInv,
         \/ \E t \in Tasks : Assign(t) \/ Cancel(t) \/ Recover(t) \/ Exit(t) \/ StrayExit(t) \/ Cool(t)
         \/ \E k \in Lanes : LaneReported(k)
         \/ Crash
  PROVE  TypeInv'
  <1> USE DEF TypeInv
  <1>1. ASSUME NEW t \in Tasks, Assign(t) \/ Cancel(t) \/ Recover(t)
        PROVE  TypeInv'
    <2>1. PICK st \in {"running", "cancelled", "cancel_requested", "away"} :
            main' = [main EXCEPT ![t] = st]
      BY <1>1 DEF Assign, Cancel, Recover
    <2>2. UNCHANGED <<native, spawn, child, stray, records, fifo, released, busy, cooling,
                      pending, placed, at, losses, crashes, sound>>
      BY <1>1 DEF Assign, Cancel, Recover, others
    <2> QED BY <2>1, <2>2 DEF TablesOK, AtOK
  <1>5. ASSUME NEW t \in Tasks, StrayExit(t) \/ Cool(t)
        PROVE  TypeInv'
    BY <1>5 DEF TablesOK, AtOK, StrayExit, Cool, others
  <1>2. ASSUME NEW t \in Tasks, Exit(t)
        PROVE  TypeInv'
    BY <1>2 DEF TablesOK, AtOK, Exit, others
  <1>3. ASSUME NEW k \in Lanes, LaneReported(k)
        PROVE  TypeInv'
    BY <1>3 DEF TablesOK, AtOK, LaneReported, others
  <1>4. CASE Crash
    <2>1. TablesOK'
      BY <1>4 DEF TablesOK, Crash
    <2> QED BY <1>4, <2>1, AtPollIs DEF AtOK, Crash
  <1> QED BY <1>1, <1>2, <1>3, <1>4, <1>5

(* Types: every step. *)
LEMMA TypesNext ==
  ASSUME TypeInv, [Next]_vars
  PROVE  TypeInv'
  <1>1. CASE Next
    BY <1>1, TypesQuiet, TypesAsk, TypesPost, TypesSweep, TypesResolve, TypesReap, TypesDrop,
       TypesQueues, TypesChoose, TypesSpawn, TypesAround DEF Next, Cycle
  <1>2. CASE UNCHANGED vars
    BY <1>2 DEF vars, TypeInv, TablesOK, AtOK
  <1> QED BY <1>1, <1>2

(* Types hold initially. *)
LEMMA TypesInit == Init => TypeInv
  <1> SUFFICES ASSUME Init PROVE TypeInv
    OBVIOUS
  <1>1. TablesOK
    BY DEF Init, TablesOK
  <1> QED BY <1>1, AtPollIs DEF Init, TypeInv, AtOK

(* The executor's tables, its queues and the locals of its loop keep their *)
(* types through every interleaving with main, children and restarts.      *)
THEOREM ExecutorTypes == Spec => []TypeOK
  <1>1. TypeInv => TypeOK
    BY TypeSplit DEF TypeInv
  <1> QED BY <1>1, TypesInit, TypesNext, PTL DEF Spec

----------------------------------------------------------------------------
(* The records *)

(* A spawn is forgotten in one step and its record dropped in the next. *)
Leaving == IF at.pc \in {"sweep_drop", "drop"} THEN {at.task} ELSE {}

Resolving == at.pc = "resolve" \/ (at.pc \in {"drop", "report"} /\ at.then = "resolve")

Books ==
    /\ records = Tracked \cup Leaving /\ Tracked \cap Leaving = {}
    /\ at.pc \in {"sweep", "sweep_drop", "sweep_ack"} => at.todo \subseteq Tracked
    /\ DOMAIN at.found \subseteq Tracked
    /\ DOMAIN at.found # {} => Resolving

(* Books: a step that leaves spawns and records alone. *)
LEMMA BooksStay ==
  ASSUME Books, UNCHANGED <<spawn, records>>,
         at.pc \notin {"sweep_drop", "drop"}, at'.pc \notin {"sweep_drop", "drop"},
         at'.pc \in {"sweep", "sweep_ack"} => at'.todo \subseteq Tracked,
         DOMAIN at'.found = {} \/ (at'.found = at.found /\ (Resolving => Resolving'))
  PROVE  Books'
  <1>1. Tracked' = Tracked
    BY DEF Tracked
  <1>2. Leaving = {} /\ Leaving' = {}
    BY DEF Leaving
  <1> QED BY <1>1, <1>2 DEF Books

(* Books: the places that read and go on. *)
LEMMA BooksQuiet ==
  ASSUME TypeInv, Books,
         PollOnce \/ SweepEnd \/ ResolveEnd \/ DrainStart \/ DrainEnd \/ Renew \/ Gate
         \/ CandidatesEnd \/ Fetch \/ PopenFailed
  PROVE  Books'
  <1> USE DEF TypeInv
  <1>1. UNCHANGED <<spawn, records>>
    BY DEF PollOnce, SweepEnd, ResolveEnd, DrainStart, DrainEnd, Renew, Gate,
           CandidatesEnd, Fetch, PopenFailed
  <1>2. at.pc \notin {"sweep_drop", "drop"}
    BY DEF PollOnce, SweepEnd, ResolveEnd, DrainStart, DrainEnd, Renew, Gate,
           CandidatesEnd, Fetch, PopenFailed
  <1>3. at' = Poll => Books'
    BY <1>1, <1>2, AtPollIs, BooksStay
  <1>4. CASE PollOnce
    BY <1>1, <1>2, <1>4, PollOnceAt, BooksStay
  <1>5. ASSUME DOMAIN at.found = {}, at'.found = at.found,
               at'.pc \notin {"sweep", "sweep_ack", "sweep_drop", "drop"}
        PROVE  Books'
    BY <1>1, <1>2, <1>5, BooksStay
  <1>6. CASE SweepEnd \/ ResolveEnd \/ DrainEnd
    <2>1. PICK p \in {"drain", "reap", "lanes"} : Goto(p)
      BY <1>6 DEF SweepEnd, ResolveEnd, DrainEnd, AtReap
    <2>2. DOMAIN at.found = {}
      BY <1>6 DEF SweepEnd, ResolveEnd, DrainEnd, Books, Resolving
    <2> QED BY <1>5, <2>1, <2>2, AtGoto DEF AtIs, PCs
  <1>7. CASE DrainStart \/ Renew \/ Gate \/ CandidatesEnd \/ Fetch
    <2>1. DOMAIN at.found = {}
      BY <1>7 DEF DrainStart, Renew, Gate, CandidatesEnd, Fetch, Books, Resolving
    <2>2. DOMAIN pending = Retried \X Tasks
      BY DEF TablesOK
    <2>3. \/ at' = Poll
          \/ /\ at'.found = at.found
             /\ at'.pc \in {"post", "claim", "released", "candidates"}
      BY <1>7, <2>2, DrainStartAt, RenewAt, FetchAt, AtGoto DEF AtIs, Gate, CandidatesEnd, PCs
    <2> QED BY <1>3, <1>5, <2>1, <2>3
  <1>8. CASE PopenFailed
    <2>1. DOMAIN at.found = {}
      BY <1>8 DEF PopenFailed, Books, Resolving
    <2> QED BY <1>5, <1>8, <2>1, PopenFailedAt DEF AtIs
  <1> QED BY <1>4, <1>6, <1>7, <1>8

(* Books: the requests to main. *)
LEMMA BooksAsk ==
  ASSUME TypeInv, Books,
         SweepAck \/ Report \/ _report_blocked \/ _requeue_task \/ ReleaseMisplaced
  PROVE  Books'
  <1> USE DEF TypeInv
  <1>1. UNCHANGED <<spawn, records>> /\ at.pc \in {"sweep_ack", "report", "spawn"}
    BY DEF SweepAck, Report, _report_blocked, _requeue_task, ReportOnce, ReleaseMisplaced
  <1>2. PICK p \in {"sweep", "resolve", "released", "candidates"} :
          /\ Goto(p)
          /\ p = "sweep" => at.pc = "sweep_ack"
          /\ at.pc = "report" => p = at.then
    BY DEF AtOK, SweepAck, Report, _report_blocked, _requeue_task, ReportOnce, ReleaseMisplaced
  <1>3. AtIs(p, at.task, at.verb, at.todo, at.due, at.found, at.budget, at.then)
    BY <1>2, AtGoto DEF PCs
  <1>4. p = "sweep" => at.todo \subseteq Tracked
    BY <1>2 DEF Books
  <1>5. Resolving => Resolving'
    BY <1>1, <1>2, <1>3 DEF Resolving, AtIs
  <1> QED BY <1>1, <1>3, <1>4, <1>5, BooksStay DEF AtIs

(* Books: the queues, the retries and the choice of a brief. *)
LEMMA BooksMid ==
  ASSUME TypeInv, Books,
         \/ ReapIdleLanes \/ SweepLaneQueues \/ Leftover \/ SpawnQueued \/ Popen
         \/ \E r \in Retried \X Tasks : DrainPost(r)
         \/ \E k \in Lanes : SpawnReleased(k)
         \/ \E t \in Tasks : Candidate(t)
  PROVE  Books'
  <1> USE DEF TypeInv
  <1>1. UNCHANGED <<spawn, records>>
        /\ at.pc \in {"lanes", "queues", "released", "spawn", "post", "candidates"}
    BY DEF ReapIdleLanes, SweepLaneQueues, Leftover, SpawnQueued, Popen, DrainPost, SpawnReleased,
           Candidate
  <1>2. DOMAIN at.found = {}
    BY <1>1 DEF Books, Resolving
  <1>3. released \in [Lanes -> Seq(Tasks)]
    BY DEF TablesOK
  <1>4. DOMAIN at'.found = {}
        /\ at'.pc \in {"queues", "renew", "poll", "track", "post", "spawn", "candidates", "released"}
    <2>1. CASE ReapIdleLanes \/ SweepLaneQueues \/ Popen
      BY <1>2, <2>1, AtGoto DEF AtIs, ReapIdleLanes, SweepLaneQueues, Popen, PCs
    <2>2. CASE Leftover
      BY <2>2, AtPollIs DEF Leftover
    <2>3. CASE \E r \in Retried \X Tasks : DrainPost(r)
      BY <1>2, <2>3, DrainPostAt DEF AtIs
    <2>4. CASE \E k \in Lanes : SpawnReleased(k)
      BY <1>2, <1>3, <2>4, SpawnReleasedAt DEF AtIs
    <2>5. CASE \E t \in Tasks : Candidate(t)
      BY <1>2, <2>5, CandidateAt DEF AtIs
    <2>6. CASE SpawnQueued
      BY <1>2, <2>6, SpawnQueuedAt DEF AtIs
    <2> QED BY <2>1, <2>2, <2>3, <2>4, <2>5, <2>6
  <1> QED BY <1>1, <1>4, BooksStay

(* Books: the reap sees tracked spawns only. *)
LEMMA BooksReap ==
  ASSUME TypeInv, Books, Reap
  PROVE  Books'
  <1>1. PICK seen \in SUBSET Tracked, late \in SUBSET Tracked :
          AtIs("resolve", at.task, at.verb, at.todo, at.due,
               [t \in seen \cup late |-> IF t \in late THEN "failure" ELSE Outcome(t)],
               at.budget, at.then)
    BY ReapAt DEF TypeInv
  <1>2. at'.pc = "resolve" /\ DOMAIN at'.found \subseteq Tracked
    BY <1>1 DEF AtIs
  <1>3. Tracked' = Tracked /\ UNCHANGED records /\ at.pc = "reap"
    BY DEF Reap, Tracked
  <1>4. Leaving = {} /\ Leaving' = {}
    BY <1>2, <1>3 DEF Leaving
  <1> QED BY <1>2, <1>3, <1>4 DEF Books, Resolving

(* Books: a cancelled spawn is forgotten, its record about to go. *)
LEMMA BooksSweepRead ==
  ASSUME TypeInv, Books, NEW t \in Tasks, SweepRead(t)
  PROVE  Books'
  <1> USE DEF TypeInv
  <1>1. at.pc = "sweep" /\ t \in at.todo /\ UNCHANGED records
    BY DEF SweepRead
  <1>2. at.todo \subseteq Tracked /\ DOMAIN at.found = {} /\ records = Tracked
    BY <1>1 DEF Books, Resolving, Leaving
  <1>3. CASE /\ Forget(t, Killable(t))
             /\ \E v \in {"fail", "none"} :
                   AtIs("sweep_drop", t, v, at.todo \ {t}, at.due, at.found, at.budget, at.then)
    <2>1. Tracked' = Tracked \ {t}
      BY <1>3, ForgetTypes DEF Killable
    <2>2. Leaving' = {t} /\ at'.pc = "sweep_drop" /\ at'.todo = at.todo \ {t} /\ at'.found = at.found
      BY <1>3 DEF Leaving, AtIs
    <2> QED BY <1>1, <1>2, <2>1, <2>2 DEF Books
  <1>4. CASE /\ UNCHANGED <<spawn, child, stray>>
             /\ AtIs("sweep", at.task, at.verb, at.todo \ {t}, at.due, at.found, at.budget, at.then)
    BY <1>1, <1>2, <1>4, BooksStay DEF AtIs
  <1> QED BY <1>3, <1>4, SweepReadAt

(* Books: the record goes, and the tables agree again. *)
LEMMA BooksDrop ==
  ASSUME TypeInv, Books, SweepDrop \/ Drop
  PROVE  Books'
  <1> USE DEF TypeInv
  <1>1. records' = records \ {at.task} /\ Tracked' = Tracked /\ Leaving = {at.task}
    BY DEF SweepDrop, Drop, Tracked, Leaving
  <1>2. records' = Tracked
    BY <1>1 DEF Books
  <1>3. CASE SweepDrop
    <2>1. at'.pc \in {"sweep", "sweep_ack"} /\ at'.todo = at.todo /\ at'.found = at.found
      BY <1>3, SweepDropAt DEF AtIs
    <2>2. at.pc = "sweep_drop"
      BY <1>3 DEF SweepDrop
    <2> QED BY <1>1, <1>2, <2>1, <2>2 DEF Books, Leaving, Resolving
  <1>4. CASE Drop
    <2>1. at.then = "resolve"
      BY <1>4 DEF Drop, AtOK
    <2>2. at'.pc \in {"resolve", "report"} /\ at'.then = "resolve" /\ at'.found = at.found
      BY <1>4, <2>1, DropAt DEF AtIs
    <2> QED BY <1>1, <1>2, <2>2 DEF Books, Leaving, Resolving
  <1> QED BY <1>3, <1>4

(* Books: a resolved spawn is forgotten, its record about to go. *)
LEMMA BooksResolve ==
  ASSUME TypeInv, Books, NEW t \in Tasks, RequeueBusyRefusal(t) \/ Resolve(t)
  PROVE  Books'
  <1> USE DEF TypeInv
  <1>1. /\ t \in DOMAIN at.found /\ at.pc = "resolve" /\ Forget(t, FALSE)
        /\ at'.pc = "drop" /\ at'.task = t /\ at'.then = "resolve"
        /\ at'.found = [u \in DOMAIN at.found \ {t} |-> at.found[u]]
    <2>1. CASE Resolve(t)
      BY <2>1, ResolveAt DEF AtIs
    <2>2. CASE RequeueBusyRefusal(t)
      <3>1. Resolved(t, "none")
        BY <2>2 DEF RequeueBusyRefusal
      <3> QED BY <3>1, ResolvedAt DEF AtIs, Resolved
    <2> QED BY <2>1, <2>2
  <1>2. Tracked' = Tracked \ {t} /\ UNCHANGED records
    BY <1>1, ForgetTypes DEF Resolve, RequeueBusyRefusal
  <1>3. Leaving = {} /\ Leaving' = {t}
    BY <1>1 DEF Leaving
  <1>4. t \in Tracked /\ records = Tracked /\ DOMAIN at'.found = DOMAIN at.found \ {t}
    BY <1>1, <1>3 DEF Books
  <1> QED BY <1>1, <1>2, <1>3, <1>4 DEF Books, Resolving

(* Books: a new spawn enters both tables. *)
LEMMA BooksTrack ==
  ASSUME TypeInv, Books, Track
  PROVE  Books'
  <1> USE DEF TypeInv
  <1>1. at.pc = "track" /\ at.task \in Tasks /\ at.then \in {"released", "candidates"}
    BY DEF Track, AtOK
  <1>2. Tracked' = Tracked \cup {at.task} /\ records' = records \cup {at.task}
    BY <1>1 DEF Track, Tracked, TablesOK
  <1>3. at'.pc \in {"released", "candidates"} /\ at'.found = at.found
    BY <1>1, AtGoto DEF Track, AtIs, PCs
  <1>4. DOMAIN at.found = {} /\ records = Tracked
    BY <1>1 DEF Books, Resolving, Leaving
  <1> QED BY <1>2, <1>3, <1>4 DEF Books, Leaving

(* Books: a crash resumes exactly the recorded spawns; nothing else        *)
(* matters.                                                                *)
LEMMA BooksAround ==
  ASSUME TypeInv, Books,
         \/ \E t \in Tasks : Assign(t) \/ Cancel(t) \/ Recover(t) \/ Exit(t) \/ StrayExit(t) \/ Cool(t)
         \/ \E k \in Lanes : LaneReported(k)
         \/ Crash
  PROVE  Books'
  <1>1. CASE ~Crash
    <2>1. UNCHANGED <<spawn, records, at>>
      BY <1>1 DEF Assign, Cancel, Recover, Exit, StrayExit, Cool, LaneReported, others
    <2> QED BY <2>1 DEF Books, Tracked, Leaving, Resolving
  <1>2. CASE Crash
    <2>1. Tracked' = records /\ UNCHANGED records /\ at' = Poll
      BY <1>2 DEF Crash, Tracked, TypeInv, TablesOK
    <2> QED BY <2>1, AtPollIs DEF Books, Leaving
  <1> QED BY <1>1, <1>2

(* Books: every step. *)
LEMMA BooksNext ==
  ASSUME TypeInv, Books, [Next]_vars
  PROVE  Books'
  <1>1. CASE Next
    BY <1>1, BooksQuiet, BooksAsk, BooksMid, BooksReap, BooksSweepRead, BooksDrop, BooksResolve,
       BooksTrack, BooksAround DEF Next, Cycle
  <1>2. CASE UNCHANGED vars
    BY <1>2 DEF vars, Books, Tracked, Leaving, Resolving
  <1> QED BY <1>1, <1>2

(* Books holds initially. *)
LEMMA BooksInit == Init => Books
  BY AtPollIs DEF Init, Books, Tracked, Leaving

(* #804: whenever a cycle begins the persisted records are exactly the     *)
(* tracked spawns, whatever requests were lost and wherever the executor   *)
(* died before.                                                            *)
THEOREM RecordsSafety == Spec => []RecordsTracked
  <1>1. Books => RecordsTracked
    BY DEF Books, RecordsTracked, Leaving
  <1> QED BY <1>1, TypesInit, TypesNext, BooksInit, BooksNext, PTL DEF Spec

----------------------------------------------------------------------------
(* Completions *)

(* The exit code of a re-attached native child is lost, and what such a    *)
(* child wrote before it failed is taken for its result.  The hypothesis   *)
(* leaves that case out: no restarts, or dispatched lanes, whose status    *)
(* survives a restart, or children that write nothing unless they succeed. *)
CodesKnown == MaxCrashes = 0 \/ TRUE \notin Modes \/ "partial" \notin Ends

(* Whatever says or will say "complete" is about a task a child of which   *)
(* succeeded: the child, its outcome, the report, the reports put off.     *)
Honest ==
    /\ \A t \in Tasks : child[t] \in {"good", "asks"} => t \in sound
    /\ \A t \in DOMAIN at.found : at.found[t] \in {"done", "blocked"} => t \in sound
    /\ at.pc \in {"drop", "report"} /\ at.verb = "complete" => at.task \in sound
    /\ \A t \in Tasks : pending[<<"complete", t>>] > 0 => t \in sound
    /\ \A t \in Tasks : <<"complete", t>> \in at.due => t \in sound
    /\ \A t \in Tasks : child[t] = "partial" => "partial" \in Ends
    /\ crashes = 0 => \A t \in Tasks : spawn[t] # "resumed"
    /\ CompletedIsSound

(* A step after which nothing new says so. *)
SaysNoMore ==
    /\ UNCHANGED <<crashes, sound>>
    /\ \A t \in Tasks : child'[t] \in {child[t], "none", "live"}
    /\ \A t \in Tasks : spawn'[t] = "resumed" => spawn[t] = "resumed"
    /\ \A t \in DOMAIN at'.found : t \in DOMAIN at.found /\ at'.found[t] = at.found[t]
    /\ at'.pc \in {"drop", "report"} /\ at'.verb = "complete" => at'.task \in sound
    /\ \A t \in Tasks : pending'[<<"complete", t>>] > 0 => t \in sound
    /\ \A t \in Tasks : <<"complete", t>> \in at'.due => t \in sound
    /\ \A t \in Tasks : main'[t] = "completed" => t \in sound

(* Honest: a step after which nothing new says complete. *)
LEMMA HonestStay ==
  ASSUME Honest, SaysNoMore
  PROVE  Honest'
  BY DEF Honest, SaysNoMore, CompletedIsSound

(* Honest: the places that read and go on. *)
LEMMA HonestQuiet ==
  ASSUME TypeInv, Honest,
         PollOnce \/ SweepEnd \/ ResolveEnd \/ DrainStart \/ DrainEnd \/ Renew \/ Gate
         \/ CandidatesEnd \/ Fetch \/ PopenFailed
  PROVE  Honest'
  <1> USE DEF TypeInv
  <1>1. UNCHANGED <<main, spawn, child, pending, crashes, sound>>
    BY DEF PollOnce, SweepEnd, ResolveEnd, DrainStart, DrainEnd, Renew, Gate,
           CandidatesEnd, Fetch, PopenFailed
  <1>2. ASSUME at'.found = at.found \/ DOMAIN at'.found = {},
               at'.pc \notin {"drop", "report"} \/ at'.verb # "complete",
               \A t \in Tasks : <<"complete", t>> \in at'.due => t \in sound
        PROVE  Honest'
    BY <1>1, <1>2, HonestStay DEF Honest, SaysNoMore, CompletedIsSound
  <1>3. \A t \in Tasks : <<"complete", t>> \in at.due => t \in sound
    BY DEF Honest
  <1>4. at' = Poll => Honest'
    BY <1>2, AtPollIs
  <1>5. CASE PollOnce
    BY <1>2, <1>5, PollOnceAt
  <1>6. CASE SweepEnd \/ ResolveEnd \/ DrainEnd
    <2>1. PICK p \in {"drain", "reap", "lanes"} : Goto(p)
      BY <1>6 DEF SweepEnd, ResolveEnd, DrainEnd, AtReap
    <2> QED BY <1>2, <1>3, <2>1, AtGoto DEF AtIs, PCs
  <1>7. CASE DrainStart
    <2>1. DOMAIN pending = Retried \X Tasks
      BY DEF TablesOK
    <2>2. PICK due \in SUBSET {r \in Retried \X Tasks : pending[r] > 0} :
            AtIs("post", at.task, at.verb, at.todo, due, at.found, at.budget, at.then)
      BY <1>7, <2>1, DrainStartAt
    <2>3. \A t \in Tasks : <<"complete", t>> \in due => t \in sound
      BY DEF Honest
    <2> QED BY <1>2, <2>2, <2>3 DEF AtIs
  <1>8. CASE Renew \/ Gate \/ CandidatesEnd \/ Fetch
    <2>1. \/ at' = Poll
          \/ /\ at'.found = at.found /\ at'.due = at.due
             /\ at'.pc \in {"claim", "released", "candidates"}
      BY <1>8, RenewAt, FetchAt, AtGoto DEF AtIs, Gate, CandidatesEnd, PCs
    <2> QED BY <1>2, <1>3, <1>4, <2>1
  <1>9. CASE PopenFailed
    BY <1>2, <1>3, <1>9, PopenFailedAt DEF AtIs
  <1> QED BY <1>5, <1>6, <1>7, <1>8, <1>9

(* Honest: the requests to main, whether they arrive or join the retries. *)
LEMMA HonestAsk ==
  ASSUME TypeInv, Honest,
         SweepAck \/ Report \/ _report_blocked \/ _requeue_task \/ ReleaseMisplaced
  PROVE  Honest'
  <1> USE DEF TypeInv
  <1>1. UNCHANGED <<spawn, child, crashes, sound>>
    BY DEF SweepAck, Report, _report_blocked, _requeue_task, ReportOnce, ReleaseMisplaced
  <1>2. at.task \in Tasks
    BY DEF AtOK, SweepAck, Report, _report_blocked, _requeue_task, ReportOnce, ReleaseMisplaced
  <1>3. PICK v \in Verbs, got \in BOOLEAN :
          /\ Exchange(v, at.task, got)
          /\ v = "complete" => at.pc = "report" /\ at.verb = "complete"
    BY DEF SweepAck, Report, _report_blocked, _requeue_task, ReportOnce, ReleaseMisplaced,
           Verbs, Retried
  <1>4. v = "complete" => at.task \in sound
    BY <1>3 DEF Honest
  <1>5. \A t \in Tasks : main'[t] = "completed" => t \in sound
    BY <1>2, <1>3, <1>4, ExchangeTypes DEF Honest, CompletedIsSound
  <1>6. PICK p \in {"sweep", "resolve", "released", "candidates"} : Goto(p)
    BY DEF AtOK, SweepAck, Report, _report_blocked, _requeue_task, ReportOnce, ReleaseMisplaced
  <1>7. AtIs(p, at.task, at.verb, at.todo, at.due, at.found, at.budget, at.then)
    BY <1>6, AtGoto DEF PCs
  <1>8. \A t \in Tasks : pending'[<<"complete", t>>] > 0 => t \in sound
    <2>1. CASE UNCHANGED pending
      BY <2>1 DEF Honest
    <2>2. CASE Report /\ pending' = [pending EXCEPT ![<<at.verb, at.task>>] = 1]
      <3>1. at.verb = "complete" => at.task \in sound
        BY <2>2 DEF Report, Honest
      <3>2. \A t \in Tasks : <<"complete", t>> \in DOMAIN pending
        BY DEF TablesOK, Retried
      <3>3. \A t \in Tasks : pending[<<"complete", t>>] > 0 => t \in sound
        BY DEF Honest
      <3> QED BY <2>2, <3>1, <3>2, <3>3
    <2> QED BY <2>1, <2>2 DEF SweepAck, Report, _report_blocked, _requeue_task, ReportOnce,
                              ReleaseMisplaced
  <1> QED BY <1>1, <1>5, <1>7, <1>8, HonestStay DEF Honest, SaysNoMore, AtIs

(* Honest: a retried report. *)
LEMMA HonestPost ==
  ASSUME TypeInv, Honest, NEW r \in Retried \X Tasks, DrainPost(r)
  PROVE  Honest'
  <1> USE DEF TypeInv
  <1>1. PICK got \in BOOLEAN : Exchange(r[1], r[2], got)
    BY DEF DrainPost
  <1>2. r[1] \in Verbs /\ r[2] \in Tasks /\ r = <<r[1], r[2]>>
    BY DEF Retried, Verbs
  <1>3. r \in at.due /\ AtIs("post", at.task, at.verb, at.todo, at.due \ {r}, at.found, at.budget, at.then)
    BY DrainPostAt
  <1>4. r[1] = "complete" => r[2] \in sound
    BY <1>2, <1>3 DEF Honest
  <1>5. \A t \in Tasks : main'[t] = "completed" => t \in sound
    BY <1>1, <1>2, <1>4, ExchangeTypes DEF Honest, CompletedIsSound
  <1>6. \A t \in Tasks : pending'[<<"complete", t>>] > 0 => t \in sound
    <2>1. \A t \in Tasks : <<"complete", t>> # r => pending'[<<"complete", t>>] = pending[<<"complete", t>>]
      BY DEF DrainPost, TablesOK, Retried
    <2>2. \A t \in Tasks : <<"complete", t>> = r => t \in sound
      BY <1>4
    <2> QED BY <2>1, <2>2 DEF Honest
  <1>7. UNCHANGED <<spawn, child, crashes, sound>>
    BY DEF DrainPost
  <1> QED BY <1>3, <1>5, <1>6, <1>7, HonestStay DEF Honest, SaysNoMore, AtIs

(* An outcome that counts as success is a successful child's: its code is  *)
(* known, or a failed child has written nothing.                           *)
LEMMA OutcomeHonest ==
  ASSUME CodesKnown, TypeInv, Honest, NEW t \in Tasks, Outcome(t) \in {"done", "blocked"}
  PROVE  t \in sound
  <1>1. child[t] \in {"good", "asks", "partial"}
    BY DEF Outcome, ExitedZero, _read_result_body, classify_non_deliverable, _escalation_ballot
  <1>2. child[t] = "partial" => native /\ spawn[t] = "resumed"
    BY DEF Outcome, ExitedZero, _read_result_body
  <1>3. spawn[t] = "resumed" => MaxCrashes # 0
    BY DEF Honest, TypeInv, TablesOK
  <1>4. native => TRUE \in Modes
    <2>1. native \in Modes /\ native \in BOOLEAN
      BY DEF TypeInv, TablesOK
    <2> QED BY <2>1
  <1>5. child[t] = "partial" => "partial" \in Ends
    BY DEF Honest
  <1>6. child[t] # "partial"
    BY <1>2, <1>3, <1>4, <1>5 DEF CodesKnown
  <1> QED BY <1>1, <1>6 DEF Honest

(* Honest: the reap. *)
LEMMA HonestReap ==
  ASSUME CodesKnown, TypeInv, Honest, Reap
  PROVE  Honest'
  <1> DEFINE f(seen, late) == [t \in seen \cup late |-> IF t \in late THEN "failure" ELSE Outcome(t)]
  <1>1. PICK seen \in SUBSET Tracked, late \in SUBSET Tracked :
          /\ AtIs("resolve", at.task, at.verb, at.todo, at.due, f(seen, late), at.budget, at.then)
          /\ child' = [t \in Tasks |-> IF t \in late /\ Killable(t) THEN "none" ELSE child[t]]
    BY ReapAt DEF TypeInv
  <1>2. \A t \in DOMAIN at'.found : at'.found[t] \in {"done", "blocked"} => t \in sound
    <2>1. at'.found = f(seen, late)
      BY <1>1 DEF AtIs
    <2>2. SUFFICES ASSUME NEW t \in DOMAIN at'.found, at'.found[t] \in {"done", "blocked"}
                   PROVE  t \in sound
      OBVIOUS
    <2>3. t \in Tasks /\ Outcome(t) \in {"done", "blocked"}
      BY <2>1, <2>2 DEF Tracked
    <2> QED BY <2>3, OutcomeHonest
  <1>3. UNCHANGED <<main, spawn, pending, crashes, sound>>
    BY DEF Reap
  <1>4. \A t \in Tasks : child'[t] \in {child[t], "none"}
    BY <1>1
  <1>5. at'.pc = "resolve" /\ at'.due = at.due
    BY <1>1 DEF AtIs
  <1> QED BY <1>2, <1>3, <1>4, <1>5 DEF Honest, CompletedIsSound

(* Forgetting a spawn makes no child end and resumes none. *)
LEMMA HonestForget ==
  ASSUME TypeInv, NEW t \in Tasks, NEW b \in BOOLEAN, Forget(t, b)
  PROVE  \A u \in Tasks : /\ child'[u] \in {child[u], "none"}
                          /\ spawn'[u] = "resumed" => spawn[u] = "resumed"
  BY DEF Forget, TypeInv, TablesOK

(* Honest: the cancel sweep. *)
LEMMA HonestSweep ==
  ASSUME TypeInv, Honest, SweepDrop \/ Drop \/ \E t \in Tasks : SweepRead(t)
  PROVE  Honest'
  <1> USE DEF TypeInv
  <1>1. UNCHANGED <<main, pending, crashes, sound>>
    BY DEF SweepDrop, Drop, SweepRead
  <1>2. CASE SweepDrop
    <2>1. at'.pc \in {"sweep", "sweep_ack"} /\ at'.found = at.found /\ at'.due = at.due
      BY <1>2, SweepDropAt DEF AtIs
    <2>2. UNCHANGED <<spawn, child>>
      BY <1>2 DEF SweepDrop
    <2> QED BY <1>1, <2>1, <2>2, HonestStay DEF Honest, SaysNoMore, CompletedIsSound
  <1>3. CASE Drop
    <2>1. /\ at'.found = at.found /\ at'.due = at.due
          /\ at.pc = "drop" /\ at'.verb = at.verb /\ at'.task = at.task
      BY <1>3, DropAt DEF AtIs, Drop
    <2>2. UNCHANGED <<spawn, child>>
      BY <1>3 DEF Drop
    <2> QED BY <1>1, <2>1, <2>2, HonestStay DEF Honest, SaysNoMore, CompletedIsSound
  <1>4. ASSUME NEW t \in Tasks, SweepRead(t)
        PROVE  Honest'
    <2>1. \A u \in Tasks : /\ child'[u] \in {child[u], "none"}
                           /\ spawn'[u] = "resumed" => spawn[u] = "resumed"
      BY <1>4, HonestForget DEF SweepRead, Killable
    <2>2. at'.pc \in {"sweep", "sweep_drop"} /\ at'.found = at.found /\ at'.due = at.due
      BY <1>4, SweepReadAt DEF AtIs
    <2> QED BY <1>1, <2>1, <2>2, HonestStay DEF Honest, SaysNoMore, CompletedIsSound
  <1> QED BY <1>2, <1>3, <1>4

(* Honest: an outcome becomes a report. *)
LEMMA HonestResolve ==
  ASSUME TypeInv, Honest, NEW t \in Tasks, RequeueBusyRefusal(t) \/ Resolve(t)
  PROVE  Honest'
  <1> USE DEF TypeInv
  <1>1. /\ t \in DOMAIN at.found /\ Forget(t, FALSE)
        /\ at'.task = t /\ at'.due = at.due
        /\ at'.verb = "complete" => at.found[t] \in {"done", "blocked"}
        /\ at'.found = [u \in DOMAIN at.found \ {t} |-> at.found[u]]
    <2>1. CASE Resolve(t)
      BY <2>1, ResolveAt DEF AtIs
    <2>2. CASE RequeueBusyRefusal(t)
      <3>1. Resolved(t, "none")
        BY <2>2 DEF RequeueBusyRefusal
      <3>2. AtIs("drop", t, "none", at.todo, at.due,
                 [u \in DOMAIN at.found \ {t} |-> at.found[u]], at.budget, "resolve")
        BY <3>1, ResolvedAt
      <3>3. t \in DOMAIN at.found /\ Forget(t, FALSE)
        BY <3>1 DEF Resolved
      <3> QED BY <3>2, <3>3 DEF AtIs
    <2> QED BY <2>1, <2>2
  <1>2. \A u \in Tasks : /\ child'[u] \in {child[u], "none"}
                         /\ spawn'[u] = "resumed" => spawn[u] = "resumed"
    BY <1>1, HonestForget
  <1>3. UNCHANGED <<main, pending, crashes, sound>>
    BY DEF Resolve, RequeueBusyRefusal
  <1>4. at'.verb = "complete" => at'.task \in sound
    BY <1>1 DEF Honest
  <1> QED BY <1>1, <1>2, <1>3, <1>4, HonestStay DEF Honest, SaysNoMore, CompletedIsSound

(* Honest: the queues and the start of a child. *)
LEMMA HonestMid ==
  ASSUME TypeInv, Honest,
         \/ ReapIdleLanes \/ SweepLaneQueues \/ Leftover \/ SpawnQueued \/ Popen \/ Track
         \/ \E k \in Lanes : SpawnReleased(k)
         \/ \E t \in Tasks : Candidate(t)
  PROVE  Honest'
  <1> USE DEF TypeInv
  <1>1. UNCHANGED <<main, pending, crashes, sound>>
    BY DEF ReapIdleLanes, SweepLaneQueues, Leftover, SpawnQueued, Popen, Track, SpawnReleased,
           Candidate
  <1>2. \A t \in Tasks : /\ child'[t] \in {child[t], "live"}
                         /\ spawn'[t] = "resumed" => spawn[t] = "resumed"
    BY DEF ReapIdleLanes, SweepLaneQueues, Leftover, SpawnQueued, Popen, Track, SpawnReleased,
           Candidate, TablesOK
  <1>3. released \in [Lanes -> Seq(Tasks)]
    BY DEF TablesOK
  <1>4. /\ DOMAIN at'.found = {} \/ at'.found = at.found
        /\ at'.due \subseteq at.due
        /\ at'.pc \notin {"drop", "report"}
    <2>1. CASE ReapIdleLanes \/ SweepLaneQueues \/ Popen
      BY <2>1, AtGoto DEF AtIs, ReapIdleLanes, SweepLaneQueues, Popen, PCs
    <2>2. CASE Leftover
      BY <2>2, AtPollIs DEF Leftover
    <2>3. CASE Track
      <3>1. at.then \in {"released", "candidates"}
        BY <2>3 DEF Track, AtOK
      <3> QED BY <2>3, <3>1, AtGoto DEF AtIs, Track, PCs
    <2>4. CASE \E k \in Lanes : SpawnReleased(k)
      BY <1>3, <2>4, SpawnReleasedAt DEF AtIs
    <2>5. CASE \E t \in Tasks : Candidate(t)
      BY <2>5, CandidateAt DEF AtIs
    <2>6. CASE SpawnQueued
      BY <2>6, SpawnQueuedAt DEF AtIs
    <2> QED BY <2>1, <2>2, <2>3, <2>4, <2>5, <2>6
  <1> QED BY <1>1, <1>2, <1>4, HonestStay DEF Honest, SaysNoMore, CompletedIsSound

(* Honest: main, the children that end, the clock and a crash. *)
LEMMA HonestAround ==
  ASSUME TypeInv, Honest,
         \/ \E t \in Tasks : Assign(t) \/ Cancel(t) \/ Recover(t) \/ Exit(t) \/ StrayExit(t) \/ Cool(t)
         \/ \E k \in Lanes : LaneReported(k)
         \/ Crash
  PROVE  Honest'
  <1> USE DEF TypeInv
  <1>1. ASSUME NEW t \in Tasks, Assign(t) \/ Cancel(t) \/ Recover(t)
        PROVE  Honest'
    <2>1. PICK st \in {"running", "cancelled", "cancel_requested", "away"} :
            main' = [main EXCEPT ![t] = st]
      BY <1>1 DEF Assign, Cancel, Recover
    <2>2. \A u \in Tasks : main'[u] = "completed" => main[u] = "completed"
      BY <2>1 DEF TablesOK
    <2>3. UNCHANGED <<spawn, child, pending, at, crashes, sound>>
      BY <1>1 DEF Assign, Cancel, Recover, others
    <2> QED BY <2>2, <2>3 DEF Honest, CompletedIsSound
  <1>2. ASSUME NEW t \in Tasks, Exit(t)
        PROVE  Honest'
    <2>1. PICK e \in Ends : /\ child' = [child EXCEPT ![t] = e]
                            /\ sound' = IF e \in {"good", "asks"} THEN sound \cup {t} ELSE sound
      BY <1>2 DEF Exit
    <2>2. UNCHANGED <<main, spawn, pending, at, crashes>>
      BY <1>2 DEF Exit, others
    <2>3. sound \subseteq sound'
      BY <2>1
    <2>4. \A u \in Tasks : /\ child'[u] \in {"good", "asks"} => u \in sound'
                           /\ child'[u] = "partial" => "partial" \in Ends
      BY <2>1 DEF Honest, TablesOK
    <2> QED BY <2>2, <2>3, <2>4 DEF Honest, CompletedIsSound
  <1>3. CASE \/ \E t \in Tasks : StrayExit(t) \/ Cool(t)
             \/ \E k \in Lanes : LaneReported(k)
    <2>1. UNCHANGED <<main, spawn, child, pending, at, crashes, sound>>
      BY <1>3 DEF StrayExit, Cool, LaneReported, others
    <2> QED BY <2>1 DEF Honest, CompletedIsSound
  <1>4. CASE Crash
    <2>1. UNCHANGED <<main, sound>> /\ at' = Poll /\ crashes' = crashes + 1
      BY <1>4 DEF Crash
    <2>2. crashes' # 0
      BY <2>1 DEF TablesOK
    <2>3. \A t \in Tasks : child'[t] \in {child[t], "none"} /\ pending'[<<"complete", t>>] = 0
      BY <1>4 DEF Crash, Retried
    <2>4. at'.pc = "poll" /\ DOMAIN at'.found = {} /\ at'.due = {}
      BY <2>1, AtPollIs
    <2>5. \A t \in Tasks : /\ child'[t] \in {"good", "asks"} => t \in sound'
                           /\ child'[t] = "partial" => "partial" \in Ends
      BY <2>1, <2>3 DEF Honest
    <2>6. \A t \in Tasks : ~(pending'[<<"complete", t>>] > 0)
      <3>1. ~(0 > 0)
        OBVIOUS
      <3> QED BY <2>3, <3>1, Zenon
    <2>7. CompletedIsSound'
      BY <2>1 DEF Honest, CompletedIsSound
    <2> QED BY <2>2, <2>4, <2>5, <2>6, <2>7 DEF Honest
  <1> QED BY <1>1, <1>2, <1>3, <1>4

(* Honest: every step. *)
LEMMA HonestNext ==
  ASSUME CodesKnown, TypeInv, Honest, [Next]_vars
  PROVE  Honest'
  <1>1. CASE Next
    BY <1>1, HonestQuiet, HonestAsk, HonestPost, HonestReap, HonestSweep, HonestResolve,
       HonestMid, HonestAround DEF Next, Cycle
  <1>2. CASE UNCHANGED vars
    BY <1>2 DEF vars, Honest, CompletedIsSound
  <1> QED BY <1>1, <1>2

(* Honest holds initially. *)
LEMMA HonestInit == Init => Honest
  <1> SUFFICES ASSUME Init PROVE Honest
    OBVIOUS
  <1>1. at.pc = "poll" /\ DOMAIN at.found = {} /\ at.due = {}
    BY AtPollIs DEF Init
  <1>2. \A t \in Tasks : pending[<<"complete", t>>] = 0
    BY DEF Init, Retried
  <1> QED BY <1>1, <1>2 DEF Init, Honest, CompletedIsSound

(* #870: main's row says completed only if some child of the task ended    *)
(* with exit code 0 and a result, however often the report was retried and *)
(* whatever main did meanwhile.                                            *)
THEOREM CompletionSafety == CodesKnown => (Spec => []CompletedIsSound)
  <1> SUFFICES ASSUME CodesKnown PROVE Spec => []CompletedIsSound
    OBVIOUS
  <1>1. Honest => CompletedIsSound
    BY DEF Honest
  <1> QED BY <1>1, TypesInit, TypesNext, HonestInit, HonestNext, PTL DEF Spec

----------------------------------------------------------------------------
(* Children *)

(* The executor holds the handle of every child it tracks, and can kill    *)
(* it: a native worker that has not restarted.                             *)
HandlesHeld == Modes = {TRUE} /\ MaxCrashes = 0

(* Then no child is left alone, and what a reap gave up is dead. *)
Attended ==
    /\ stray = {}
    /\ \A t \in Tasks : spawn[t] # "resumed"
    /\ \A t \in DOMAIN at.found : child[t] # "live"

(* A worker that has not restarted can kill every child it tracks. *)
LEMMA CanKill ==
  ASSUME HandlesHeld, TypeInv, Attended, NEW t \in Tracked
  PROVE  Killable(t)
  BY DEF HandlesHeld, TypeInv, TablesOK, Attended, Killable, Tracked

(* A spawn forgotten with its child dead or killed leaves no stray child. *)
LEMMA AttendedForget ==
  ASSUME TypeInv, Attended, NEW t \in Tasks, NEW b \in BOOLEAN, Forget(t, b),
         b \/ child[t] # "live"
  PROVE  /\ stray' = {}
         /\ \A u \in Tasks : spawn'[u] # "resumed" /\ (child'[u] = "live" => child[u] = "live")
  BY DEF TypeInv, TablesOK, Attended, Forget

(* Attended: the loop's own steps. *)
LEMMA AttendedCycle ==
  ASSUME HandlesHeld, TypeInv, Books, Attended, Cycle
  PROVE  Attended'
  <1> USE DEF TypeInv
  <1>0. DOMAIN at.found \subseteq Tasks
    BY FoundFun
  <1>1. ASSUME NEW t \in Tasks, SweepRead(t)
        PROVE  Attended'
    <2>1. t \in Tracked /\ DOMAIN at.found = {}
      BY <1>1 DEF SweepRead, Books, Resolving
    <2>2. Killable(t)
      BY <2>1, CanKill
    <2>3. DOMAIN at'.found = {}
      BY <1>1, <2>1, SweepReadAt DEF AtIs
    <2>4. stray' = {} /\ \A u \in Tasks : spawn'[u] # "resumed"
      <3>1. CASE Forget(t, Killable(t))
        <4>1. Forget(t, TRUE)
          BY <2>2, <3>1 DEF Forget
        <4> QED BY <4>1, AttendedForget
      <3>2. CASE UNCHANGED <<spawn, child, stray>>
        BY <3>2 DEF Attended
      <3> QED BY <1>1, <3>1, <3>2 DEF SweepRead
    <2> QED BY <2>3, <2>4 DEF Attended
  <1>2. ASSUME NEW t \in Tasks, RequeueBusyRefusal(t) \/ Resolve(t)
        PROVE  Attended'
    <2>1. /\ t \in DOMAIN at.found /\ Forget(t, FALSE)
          /\ at'.found = [u \in DOMAIN at.found \ {t} |-> at.found[u]]
      <3>1. CASE Resolve(t)
        BY <3>1, ResolveAt DEF AtIs
      <3>2. CASE RequeueBusyRefusal(t)
        <4>1. Resolved(t, "none")
          BY <3>2 DEF RequeueBusyRefusal
        <4> QED BY <4>1, ResolvedAt DEF AtIs, Resolved
      <3> QED BY <1>2, <3>1, <3>2
    <2>2. child[t] # "live"
      BY <2>1 DEF Attended
    <2>3. /\ stray' = {}
          /\ \A u \in Tasks : spawn'[u] # "resumed" /\ (child'[u] = "live" => child[u] = "live")
      BY <2>1, <2>2, AttendedForget
    <2>4. DOMAIN at'.found \subseteq DOMAIN at.found
      BY <2>1
    <2> QED BY <1>0, <2>3, <2>4 DEF Attended
  <1>3. CASE Reap
    <2> DEFINE f(seen, late) == [t \in seen \cup late |-> IF t \in late THEN "failure" ELSE Outcome(t)]
    <2>1. PICK seen \in SUBSET Tracked, late \in SUBSET Tracked :
            /\ \A t \in seen : child[t] # "live"
            /\ AtIs("resolve", at.task, at.verb, at.todo, at.due, f(seen, late), at.budget, at.then)
            /\ child' = [t \in Tasks |-> IF t \in late /\ Killable(t) THEN "none" ELSE child[t]]
      BY <1>3, ReapAt
    <2>2. DOMAIN at'.found = seen \cup late /\ seen \cup late \subseteq Tasks
      BY <2>1 DEF AtIs, Tracked
    <2>3. \A t \in late : Killable(t)
      BY CanKill
    <2>4. \A t \in DOMAIN at'.found : child'[t] # "live"
      BY <2>1, <2>2, <2>3
    <2>5. UNCHANGED <<spawn, stray>>
      BY <1>3 DEF Reap
    <2> QED BY <2>4, <2>5 DEF Attended
  <1>4. CASE Popen \/ Track
    <2>1. DOMAIN at.found = {}
      BY <1>4 DEF Popen, Track, Books, Resolving
    <2>2. at.task \in Tasks /\ at.then \in {"released", "candidates"}
      BY <1>4 DEF Popen, Track, AtOK
    <2>3. DOMAIN at'.found = {}
      BY <1>4, <2>1, <2>2, AtGoto DEF AtIs, Popen, Track, PCs
    <2>4. stray' = {} /\ \A t \in Tasks : spawn'[t] # "resumed"
      BY <1>4, <2>2 DEF Popen, Track, Attended, TablesOK
    <2> QED BY <2>3, <2>4 DEF Attended
  <1>5. ASSUME UNCHANGED <<spawn, child, stray>>,
               DOMAIN at'.found = {} \/ at'.found = at.found
        PROVE  Attended'
    BY <1>5 DEF Attended
  <1>6. CASE PollOnce \/ SweepEnd \/ ResolveEnd \/ DrainStart \/ DrainEnd \/ Renew \/ Gate
             \/ CandidatesEnd \/ Fetch \/ PopenFailed
    <2>1. UNCHANGED <<spawn, child, stray>>
      BY <1>6 DEF PollOnce, SweepEnd, ResolveEnd, DrainStart, DrainEnd, Renew, Gate,
                  CandidatesEnd, Fetch, PopenFailed
    <2>2. DOMAIN pending = Retried \X Tasks
      BY DEF TablesOK
    <2>3. CASE PollOnce
      BY <1>5, <2>1, <2>3, PollOnceAt
    <2>4. CASE SweepEnd \/ ResolveEnd \/ DrainEnd
      <3>1. PICK p \in {"drain", "reap", "lanes"} : Goto(p)
        BY <2>4 DEF SweepEnd, ResolveEnd, DrainEnd, AtReap
      <3> QED BY <1>5, <2>1, <3>1, AtGoto DEF AtIs, PCs
    <2>5. CASE DrainStart \/ Renew \/ Gate \/ CandidatesEnd \/ Fetch \/ PopenFailed
      <3>1. at' = Poll \/ at'.found = at.found
        BY <2>2, <2>5, DrainStartAt, RenewAt, FetchAt, PopenFailedAt, AtGoto
           DEF AtIs, Gate, CandidatesEnd, PCs
      <3> QED BY <1>5, <2>1, <3>1, AtPollIs
    <2> QED BY <1>6, <2>3, <2>4, <2>5
  <1>7. CASE SweepAck \/ Report \/ _report_blocked \/ _requeue_task \/ ReleaseMisplaced
    <2>1. PICK p \in {"sweep", "resolve", "released", "candidates"} : Goto(p)
      BY <1>7 DEF AtOK, SweepAck, Report, _report_blocked, _requeue_task, ReportOnce, ReleaseMisplaced
    <2>2. UNCHANGED <<spawn, child, stray>>
      BY <1>7 DEF SweepAck, Report, _report_blocked, _requeue_task, ReportOnce, ReleaseMisplaced
    <2> QED BY <1>5, <2>1, <2>2, AtGoto DEF AtIs, PCs
  <1>8. CASE SweepDrop \/ Drop
    <2>1. UNCHANGED <<spawn, child, stray>>
      BY <1>8 DEF SweepDrop, Drop
    <2>2. at'.found = at.found
      BY <1>8, SweepDropAt, DropAt DEF AtIs
    <2> QED BY <1>5, <2>1, <2>2
  <1>9. CASE \/ ReapIdleLanes \/ SweepLaneQueues \/ Leftover \/ SpawnQueued
             \/ \E r \in Retried \X Tasks : DrainPost(r)
             \/ \E k \in Lanes : SpawnReleased(k)
             \/ \E t \in Tasks : Candidate(t)
    <2>1. UNCHANGED <<spawn, child, stray>>
      BY <1>9 DEF ReapIdleLanes, SweepLaneQueues, Leftover, SpawnQueued, DrainPost, SpawnReleased,
                  Candidate
    <2>2. released \in [Lanes -> Seq(Tasks)]
      BY DEF TablesOK
    <2>3. CASE ReapIdleLanes \/ SweepLaneQueues
      BY <1>5, <2>1, <2>3, AtGoto DEF AtIs, ReapIdleLanes, SweepLaneQueues, PCs
    <2>4. CASE Leftover
      BY <1>5, <2>1, <2>4, AtPollIs DEF Leftover
    <2>5. CASE \E r \in Retried \X Tasks : DrainPost(r)
      BY <1>5, <2>1, <2>5, DrainPostAt DEF AtIs
    <2>6. CASE \E k \in Lanes : SpawnReleased(k)
      BY <1>5, <2>1, <2>2, <2>6, SpawnReleasedAt DEF AtIs
    <2>7. CASE \E t \in Tasks : Candidate(t)
      BY <1>5, <2>1, <2>7, CandidateAt DEF AtIs
    <2>8. CASE SpawnQueued
      BY <1>5, <2>1, <2>8, SpawnQueuedAt DEF AtIs
    <2> QED BY <1>9, <2>3, <2>4, <2>5, <2>6, <2>7, <2>8
  <1> QED BY <1>1, <1>2, <1>3, <1>4, <1>6, <1>7, <1>8, <1>9 DEF Cycle

(* Attended: everything else; no crash is left to happen. *)
LEMMA AttendedAround ==
  ASSUME HandlesHeld, TypeInv, Attended,
         \/ \E t \in Tasks : Assign(t) \/ Cancel(t) \/ Recover(t) \/ Exit(t) \/ StrayExit(t) \/ Cool(t)
         \/ \E k \in Lanes : LaneReported(k)
         \/ Crash
  PROVE  Attended'
  <1>1. ~Crash
    BY DEF Crash, HandlesHeld, TypeInv, TablesOK
  <1>2. \A t \in Tasks : ~StrayExit(t)
    BY DEF StrayExit, Attended
  <1>3. ASSUME NEW t \in Tasks, Exit(t)
        PROVE  Attended'
    <2>1. UNCHANGED <<spawn, stray, at>> /\ \A u \in Tasks : child'[u] = "live" => child[u] = "live"
      BY <1>3 DEF Exit, others, TypeInv, TablesOK, Exits
    <2>2. DOMAIN at.found \subseteq Tasks
      BY FoundFun DEF TypeInv
    <2> QED BY <2>1, <2>2 DEF Attended
  <1>4. CASE \/ \E t \in Tasks : Assign(t) \/ Cancel(t) \/ Recover(t) \/ Cool(t)
             \/ \E k \in Lanes : LaneReported(k)
    <2>1. UNCHANGED <<spawn, child, stray, at>>
      BY <1>4 DEF Assign, Cancel, Recover, Cool, LaneReported, others
    <2> QED BY <2>1 DEF Attended
  <1> QED BY <1>1, <1>2, <1>3, <1>4

(* #804: a native executor that has not restarted never runs two children  *)
(* of one task; cancellations and timeouts leave none behind.              *)
THEOREM ChildSafety == HandlesHeld => (Spec => []NoDuplicateWorker)
  <1> SUFFICES ASSUME HandlesHeld PROVE Spec => []NoDuplicateWorker
    OBVIOUS
  <1>1. Init => Attended
    BY AtPollIs DEF Init, Attended
  <1>2. TypeInv /\ Books /\ Attended /\ [Next]_vars => Attended'
    <2> SUFFICES ASSUME TypeInv, Books, Attended, [Next]_vars PROVE Attended'
      OBVIOUS
    <2>1. CASE UNCHANGED vars
      BY <2>1 DEF vars, Attended
    <2> QED BY <2>1, AttendedCycle, AttendedAround DEF Next
  <1>3. Attended => NoDuplicateWorker
    BY DEF Attended, NoDuplicateWorker
  <1> QED BY <1>1, <1>2, <1>3, TypesInit, TypesNext, BooksInit, BooksNext, PTL DEF Spec

----------------------------------------------------------------------------
(* The lines of the lanes *)

(* What the loop hands out of lane k, in order: the heads it has released  *)
(* and not yet spawned, then the queue.                                    *)
Line(k) == released[k] \o fifo[k]

Distinct(s) == \A i, j \in 1..Len(s) : s[i] = s[j] => i = j

----------------------------------------------------------------------------
(* Sequences *)

(* The elements of a queue. *)
LEMMA ElementsOf ==
  ASSUME NEW s \in Seq(Tasks)
  PROVE  /\ Elements(s) \subseteq Tasks
         /\ \A i \in 1..Len(s) : s[i] \in Elements(s)
         /\ s # <<>> => Head(s) \in Elements(s)
  BY DEF Elements

(* The elements of two lines, one after the other. *)
LEMMA ElementsConcat ==
  ASSUME NEW r \in Seq(Tasks), NEW s \in Seq(Tasks)
  PROVE  /\ r \o s \in Seq(Tasks)
         /\ Elements(r \o s) = Elements(r) \cup Elements(s)
  <1>1. r \o s \in Seq(Tasks) /\ Len(r \o s) = Len(r) + Len(s)
        /\ \A i \in 1..(Len(r) + Len(s)) :
             (r \o s)[i] = IF i <= Len(r) THEN r[i] ELSE s[i - Len(r)]
    BY ConcatProperties
  <1>2. ASSUME NEW x \in Elements(r \o s) PROVE x \in Elements(r) \cup Elements(s)
    <2>1. PICK i \in 1..(Len(r) + Len(s)) : x = (r \o s)[i]
      BY <1>1 DEF Elements
    <2>2. CASE i <= Len(r)
      BY <1>1, <2>1, <2>2 DEF Elements
    <2>3. CASE ~(i <= Len(r))
      <3>1. x = s[i - Len(r)] /\ i - Len(r) \in 1..Len(s)
        BY <1>1, <2>1, <2>3
      <3> QED BY <3>1 DEF Elements
    <2> QED BY <2>2, <2>3
  <1>3. ASSUME NEW x \in Elements(r) PROVE x \in Elements(r \o s)
    BY <1>1 DEF Elements
  <1>4. ASSUME NEW x \in Elements(s) PROVE x \in Elements(r \o s)
    <2>1. PICK i \in 1..Len(s) : x = s[i]
      BY DEF Elements
    <2>2. i + Len(r) \in 1..Len(r \o s) /\ (r \o s)[i + Len(r)] = s[i]
      BY <1>1
    <2> QED BY <2>1, <2>2 DEF Elements
  <1> QED BY <1>1, <1>2, <1>3, <1>4

(* A new element at the end keeps a line free of repetitions. *)
LEMMA ElementsAppend ==
  ASSUME NEW s \in Seq(Tasks), NEW t \in Tasks
  PROVE  /\ Append(s, t) \in Seq(Tasks)
         /\ Elements(Append(s, t)) = Elements(s) \cup {t}
         /\ Distinct(s) /\ t \notin Elements(s) => Distinct(Append(s, t))
  <1>1. Append(s, t) \in Seq(Tasks) /\ Len(Append(s, t)) = Len(s) + 1
        /\ Append(s, t)[Len(s) + 1] = t
        /\ \A i \in 1..Len(s) : Append(s, t)[i] = s[i]
    BY AppendProperties
  <1>2. Elements(Append(s, t)) = Elements(s) \cup {t}
    <2>1. ASSUME NEW x \in Elements(Append(s, t)) PROVE x \in Elements(s) \cup {t}
      BY <1>1 DEF Elements
    <2>2. ASSUME NEW x \in Elements(s) PROVE x \in Elements(Append(s, t))
      BY <1>1 DEF Elements
    <2>3. t \in Elements(Append(s, t))
      <3>1. Len(s) + 1 \in 1..Len(Append(s, t))
        BY <1>1
      <3> QED BY <1>1, <3>1 DEF Elements
    <2> QED BY <2>1, <2>2, <2>3
  <1>3. Distinct(s) /\ t \notin Elements(s) => Distinct(Append(s, t))
    BY <1>1 DEF Distinct, Elements
  <1> QED BY <1>1, <1>2, <1>3

(* The rest of a line without repetitions does not hold its head. *)
LEMMA ElementsTail ==
  ASSUME NEW s \in Seq(Tasks), s # <<>>, Distinct(s)
  PROVE  /\ Tail(s) \in Seq(Tasks)
         /\ Elements(Tail(s)) \subseteq Elements(s) \ {Head(s)}
         /\ Distinct(Tail(s))
  <1>1. Tail(s) \in Seq(Tasks) /\ Len(Tail(s)) = Len(s) - 1 /\ Head(s) = s[1] /\ Len(s) >= 1
        /\ \A i \in 1..(Len(s) - 1) : Tail(s)[i] = s[i + 1]
    BY HeadTailProperties, EmptySeq
  <1>2. ASSUME NEW x \in Elements(Tail(s)) PROVE x \in Elements(s) \ {Head(s)}
    <2>1. PICK i \in 1..Len(Tail(s)) : x = Tail(s)[i]
      BY DEF Elements
    <2>2. x = s[i + 1] /\ i + 1 \in 1..Len(s) /\ 1 \in 1..Len(s) /\ i + 1 # 1
      BY <1>1, <2>1
    <2> QED BY <1>1, <2>2 DEF Elements, Distinct
  <1>3. Distinct(Tail(s))
    <2> SUFFICES ASSUME NEW i \in 1..Len(Tail(s)), NEW j \in 1..Len(Tail(s)), Tail(s)[i] = Tail(s)[j]
                 PROVE  i = j
      BY DEF Distinct
    <2>1. s[i + 1] = s[j + 1] /\ i + 1 \in 1..Len(s) /\ j + 1 \in 1..Len(s)
      BY <1>1
    <2>2. i + 1 = j + 1
      BY <2>1 DEF Distinct
    <2> QED BY <2>2
  <1> QED BY <1>1, <1>2, <1>3

(* Two sequences of one length that agree everywhere are equal. *)
LEMMA SameSeq ==
  ASSUME NEW a \in Seq(Tasks), NEW b \in Seq(Tasks), Len(a) = Len(b),
         \A i \in 1..Len(a) : a[i] = b[i]
  PROVE  a = b
  BY SeqEqual

(* What the loop does to a lane's queues, seen on its line. *)
LEMMA LineAppend ==
  ASSUME NEW r \in Seq(Tasks), NEW s \in Seq(Tasks), NEW t \in Tasks
  PROVE  r \o Append(s, t) = Append(r \o s, t)
  <1> DEFINE a == r \o Append(s, t)
             b == Append(r \o s, t)
  <1>1. Append(s, t) \in Seq(Tasks) /\ r \o s \in Seq(Tasks)
    BY ElementsAppend, ElementsConcat
  <1>2. a \in Seq(Tasks) /\ b \in Seq(Tasks)
    BY <1>1, ElementsAppend, ElementsConcat
  <1>3. Len(a) = Len(r) + Len(s) + 1 /\ Len(b) = Len(r) + Len(s) + 1
    BY <1>1, ConcatProperties, AppendProperties
  <1>4. ASSUME NEW i \in 1..Len(a) PROVE a[i] = b[i]
    OBVIOUS
  <1> QED BY <1>2, <1>3, <1>4, SameSeq

(* Releasing the queue's head leaves the line as it is. *)
LEMMA LineShift ==
  ASSUME NEW r \in Seq(Tasks), NEW s \in Seq(Tasks), s # <<>>
  PROVE  Append(r, Head(s)) \o Tail(s) = r \o s
  <1> DEFINE a == Append(r, Head(s)) \o Tail(s)
             b == r \o s
  <1>1. Tail(s) \in Seq(Tasks) /\ Head(s) \in Tasks /\ Len(Tail(s)) = Len(s) - 1
    BY HeadTailProperties
  <1>2. a \in Seq(Tasks) /\ b \in Seq(Tasks)
    BY <1>1, ElementsAppend, ElementsConcat
  <1>3. Len(a) = Len(r) + Len(s) /\ Len(b) = Len(r) + Len(s)
    OBVIOUS
  <1>4. ASSUME NEW i \in 1..Len(a) PROVE a[i] = b[i]
    OBVIOUS
  <1> QED BY <1>2, <1>3, <1>4, SameSeq

(* Taking a released head takes the line's head. *)
LEMMA LineTake ==
  ASSUME NEW r \in Seq(Tasks), NEW s \in Seq(Tasks), r # <<>>
  PROVE  Tail(r) \o s = Tail(r \o s) /\ Head(r \o s) = Head(r) /\ r \o s # <<>>
  <1> DEFINE a == Tail(r) \o s
             b == Tail(r \o s)
  <1>1. Tail(r) \in Seq(Tasks) /\ Len(Tail(r)) = Len(r) - 1 /\ Len(r) >= 1
    BY HeadTailProperties, EmptySeq
  <1>2. r \o s \in Seq(Tasks) /\ Len(r \o s) = Len(r) + Len(s) /\ r \o s # <<>>
    BY <1>1, ConcatProperties
  <1>3. a \in Seq(Tasks) /\ b \in Seq(Tasks)
    BY <1>1, <1>2, ElementsConcat, HeadTailProperties
  <1>4. Len(a) = Len(r) + Len(s) - 1 /\ Len(b) = Len(r) + Len(s) - 1
    BY <1>1, <1>2
  <1>5. ASSUME NEW i \in 1..Len(a) PROVE a[i] = b[i]
    BY <1>1, <1>2
  <1>6. Head(r \o s) = Head(r)
    BY <1>1, <1>2
  <1>7. a = b
    BY <1>3, <1>4, <1>5, SameSeq
  <1> QED BY <1>2, <1>6, <1>7

(* A sequence without repetition has as many elements as places. *)
LEMMA DistinctCounts ==
  ASSUME NEW s \in Seq(Tasks), Distinct(s)
  PROVE  Cardinality(Elements(s)) = Len(s)
  <1>1. s \in [1..Len(s) -> Elements(s)] /\ Len(s) \in Nat
    BY DEF Elements
  <1>2. s \in Surjection(1..Len(s), Elements(s))
    BY <1>1 DEF Surjection, Elements
  <1>3. s \in Injection(1..Len(s), Elements(s))
    BY <1>1 DEF Injection, IsInjective, Distinct
  <1>4. IsFiniteSet(1..Len(s)) /\ Cardinality(1..Len(s)) = Len(s)
    <2> DEFINE n == Len(s)
    <2>1. n \in Int /\ 1 \in Int /\ n \in Nat
      BY <1>1
    <2> HIDE DEF n
    <2>2. IsFiniteSet(1..n) /\ Cardinality(1..n) = IF 1 > n THEN 0 ELSE n - 1 + 1
      BY <2>1, FS_Interval
    <2>3. Cardinality(1..n) = n
      BY <2>1, <2>2
    <2> QED BY <2>2, <2>3 DEF n
  <1> QED BY <1>2, <1>3, <1>4, FS_Surjection

----------------------------------------------------------------------------
(* The invariant *)

Waiting == UNION {Elements(Line(k)) : k \in Lanes}
Coming == IF at.pc \in {"spawn", "track"} THEN {at.task} ELSE {}
Hunting == at.pc = "candidates" \/ (at.pc \in {"spawn", "track", "report"} /\ at.then = "candidates")

LinesDistinct == \A k \in Lanes : Distinct(Line(k))
LinesOfLane == \A k \in Lanes : \A t \in Elements(Line(k)) : Lane[t] = k
RefusedHasLane == \A t \in DOMAIN at.found : at.found[t] = "lane_busy_refused" => Lane[t] \in Lanes

(* A task is tracked, or about to be spawned, or waits in its lane's line, *)
(* or is a candidate.                                                      *)
Apart ==
    /\ Tracked \cap Waiting = {}
    /\ Coming \cap (Tracked \cup Waiting) = {}
    /\ Hunting => at.todo \cap (Tracked \cup Waiting \cup Coming) = {}

Lines == LinesDistinct /\ LinesOfLane /\ RefusedHasLane /\ Apart

(* A lane's line, and what is on it. *)
LEMMA LineTypes ==
  ASSUME TablesOK, NEW k \in Lanes
  PROVE  Line(k) \in Seq(Tasks) /\ Elements(Line(k)) \subseteq Tasks
         /\ Elements(Line(k)) = Elements(released[k]) \cup Elements(fifo[k])
  <1>1. released[k] \in Seq(Tasks) /\ fifo[k] \in Seq(Tasks)
    BY DEF TablesOK
  <1>2. Line(k) \in Seq(Tasks) /\ Elements(Line(k)) = Elements(released[k]) \cup Elements(fifo[k])
    BY <1>1, ElementsConcat DEF Line
  <1> QED BY <1>2, ElementsOf

(* What is on a line is what the model calls queued. *)
LEMMA WaitingQueued == ASSUME TablesOK PROVE Waiting = Queued
  BY LineTypes DEF Waiting, Queued

(* Lines says that a task is in one place. *)
LEMMA LinesOnePlace ==
  ASSUME TablesOK, Lines
  PROVE  OnePlace
  <1>1. Tracked \cap Queued = {}
    BY WaitingQueued DEF Lines, Apart
  <1>2. \A k \in Lanes : Cardinality(Elements(Line(k))) = Len(Line(k))
    BY LineTypes, DistinctCounts DEF Lines, LinesDistinct
  <1>3. \A k, m \in Lanes : k # m => Elements(Line(k)) \cap Elements(Line(m)) = {}
    BY DEF Lines, LinesOfLane
  <1> QED BY <1>1, <1>2, <1>3 DEF OnePlace, Line

(* A step after which nothing new waits, is tracked or comes. *)
Settled ==
    /\ \A k \in Lanes : Line(k)' = Line(k)
    /\ Tracked' \subseteq Tracked
    /\ Coming' \subseteq Coming
    /\ Hunting' => Hunting /\ at'.todo \subseteq at.todo

FoundLess == \A t \in DOMAIN at'.found : t \in DOMAIN at.found /\ at'.found[t] = at.found[t]

(* Lines: a step after which nothing new is on a line or in hand. *)
LEMMA LinesStay ==
  ASSUME Lines, Settled, RefusedHasLane'
  PROVE  Lines'
  <1>1. Waiting' = Waiting
    BY DEF Waiting, Settled
  <1>2. LinesDistinct' /\ LinesOfLane'
    BY DEF Settled, Lines, LinesDistinct, LinesOfLane
  <1>3. Apart'
    BY <1>1 DEF Settled, Lines, Apart
  <1> QED BY <1>2, <1>3 DEF Lines

(* A refused lane's task keeps its lane while outcomes are only taken out. *)
LEMMA RefusedStay ==
  ASSUME RefusedHasLane, FoundLess \/ DOMAIN at'.found = {}
  PROVE  RefusedHasLane'
  BY DEF RefusedHasLane, FoundLess

(* The steps that leave the queues and the spawns alone. *)
LEMMA Unmoved ==
  ASSUME UNCHANGED <<spawn, fifo, released>>
  PROVE  (\A k \in Lanes : Line(k)' = Line(k)) /\ Tracked' = Tracked
  BY DEF Line, Tracked

(* Settled: a step that leaves the tables alone and takes nothing in hand. *)
LEMMA SettledPc ==
  ASSUME UNCHANGED <<spawn, fifo, released>>,
         at'.pc \notin {"spawn", "track", "candidates", "report"}
  PROVE  Settled
  BY Unmoved DEF Settled, Coming, Hunting

(* Settled: the places that read and go on. *)
LEMMA SettledQuiet ==
  ASSUME TypeInv,
         PollOnce \/ SweepEnd \/ ResolveEnd \/ DrainStart \/ DrainEnd \/ Renew \/ Gate
         \/ CandidatesEnd \/ PopenFailed
  PROVE  Settled /\ (FoundLess \/ DOMAIN at'.found = {}) /\ UNCHANGED <<records, released>>
  <1> USE DEF TypeInv
  <1>1. UNCHANGED <<spawn, records, fifo, released>>
    BY DEF PollOnce, SweepEnd, ResolveEnd, DrainStart, DrainEnd, Renew, Gate, CandidatesEnd,
           PopenFailed
  <1>2. DOMAIN pending = Retried \X Tasks
    BY DEF TablesOK
  <1>3. CASE PollOnce
    BY <1>1, <1>3, PollOnceAt, SettledPc
  <1>4. CASE SweepEnd \/ ResolveEnd \/ DrainEnd
    <2>1. PICK p \in {"drain", "reap", "lanes"} : Goto(p)
      BY <1>4 DEF SweepEnd, ResolveEnd, DrainEnd, AtReap
    <2>2. AtIs(p, at.task, at.verb, at.todo, at.due, at.found, at.budget, at.then)
      BY <2>1, AtGoto DEF PCs
    <2> QED BY <1>1, <2>2, SettledPc DEF AtIs, FoundLess
  <1>5. CASE DrainStart \/ Renew \/ Gate \/ CandidatesEnd
    <2>1. \/ at' = Poll
          \/ at'.found = at.found /\ at'.pc \in {"post", "claim", "released"}
      BY <1>2, <1>5, DrainStartAt, RenewAt, AtGoto DEF AtIs, Gate, CandidatesEnd, PCs
    <2> QED BY <1>1, <2>1, AtPollIs, SettledPc DEF FoundLess
  <1>6. CASE PopenFailed
    <2>1. AtIs("report", at.task, "fail", at.todo, at.due, at.found, at.budget, at.then)
          /\ at.pc = "spawn"
      BY <1>6, PopenFailedAt DEF PopenFailed
    <2>2. Settled
      BY <1>1, <2>1, Unmoved DEF Settled, Coming, Hunting, AtIs
    <2> QED BY <1>1, <2>1, <2>2 DEF AtIs, FoundLess
  <1> QED BY <1>3, <1>4, <1>5, <1>6

(* Settled: the requests to main. *)
LEMMA SettledAsk ==
  ASSUME TypeInv,
         SweepAck \/ Report \/ _report_blocked \/ _requeue_task \/ ReleaseMisplaced
  PROVE  Settled /\ FoundLess /\ UNCHANGED <<records, released>>
  <1> USE DEF TypeInv
  <1>1. UNCHANGED <<spawn, records, fifo, released>>
    BY DEF SweepAck, Report, _report_blocked, _requeue_task, ReportOnce, ReleaseMisplaced
  <1>2. PICK p \in {"sweep", "resolve", "released", "candidates"} :
          /\ Goto(p)
          /\ p = "candidates" => at.pc \in {"report", "spawn"} /\ at.then = "candidates"
    BY DEF AtOK, SweepAck, Report, _report_blocked, _requeue_task, ReportOnce, ReleaseMisplaced
  <1>3. AtIs(p, at.task, at.verb, at.todo, at.due, at.found, at.budget, at.then)
    BY <1>2, AtGoto DEF PCs
  <1>4. Settled
    BY <1>1, <1>2, <1>3, Unmoved DEF Settled, Coming, Hunting, AtIs
  <1> QED BY <1>1, <1>3, <1>4 DEF AtIs, FoundLess

(* Settled: idle lanes, the child's start, dropped records and retries. *)
LEMMA SettledMid ==
  ASSUME TypeInv,
         \/ ReapIdleLanes \/ Popen \/ SweepDrop \/ Drop
         \/ \E r \in Retried \X Tasks : DrainPost(r)
  PROVE  Settled /\ FoundLess /\ records' \subseteq records /\ UNCHANGED released
  <1> USE DEF TypeInv
  <1>1. UNCHANGED <<spawn, fifo, released>> /\ records' \subseteq records
    BY DEF ReapIdleLanes, Popen, DrainPost, SweepDrop, Drop
  <1>2. CASE ReapIdleLanes
    <2>1. AtIs("queues", at.task, at.verb, at.todo, at.due, at.found, at.budget, at.then)
      BY <1>2, AtGoto DEF ReapIdleLanes, PCs
    <2> QED BY <1>1, <2>1, SettledPc DEF AtIs, FoundLess
  <1>3. CASE Popen
    <2>1. AtIs("track", at.task, at.verb, at.todo, at.due, at.found, at.budget, at.then)
          /\ at.pc = "spawn"
      BY <1>3, AtGoto DEF Popen, PCs
    <2>2. Settled
      BY <1>1, <2>1, Unmoved DEF Settled, Coming, Hunting, AtIs
    <2> QED BY <1>1, <2>1, <2>2 DEF AtIs, FoundLess
  <1>4. CASE \E r \in Retried \X Tasks : DrainPost(r)
    <2>1. at'.pc = "post" /\ at'.found = at.found
      BY <1>4, DrainPostAt DEF AtIs
    <2> QED BY <1>1, <2>1, SettledPc DEF FoundLess
  <1>5. CASE SweepDrop
    <2>1. at'.pc \in {"sweep", "sweep_ack"} /\ at'.found = at.found
      BY <1>5, SweepDropAt DEF AtIs
    <2> QED BY <1>1, <2>1, SettledPc DEF FoundLess
  <1>6. CASE Drop
    <2>1. at.then = "resolve"
      BY <1>6 DEF Drop, AtOK
    <2>2. at'.pc \in {"resolve", "report"} /\ at'.then = "resolve" /\ at'.found = at.found
      BY <1>6, <2>1, DropAt DEF AtIs
    <2>3. Settled
      BY <1>1, <2>2, Unmoved DEF Settled, Coming, Hunting
    <2> QED BY <1>1, <2>2, <2>3 DEF FoundLess
  <1> QED BY <1>2, <1>3, <1>4, <1>5, <1>6

(* The steps that move tasks along their lines. *)
LEMMA SettledQueues ==
  ASSUME TypeInv, SweepLaneQueues \/ Leftover
  PROVE  Settled /\ (FoundLess \/ DOMAIN at'.found = {}) /\ UNCHANGED records
  <1> USE DEF TypeInv
  <1>0. released \in [Lanes -> Seq(Tasks)] /\ fifo \in [Lanes -> Seq(Tasks)]
    BY DEF TablesOK
  <1>1. UNCHANGED <<spawn, records>>
    BY DEF SweepLaneQueues, Leftover
  <1>2. Tracked' = Tracked
    BY <1>1 DEF Tracked
  <1>3. CASE SweepLaneQueues
    <2>1. AtIs("renew", at.task, at.verb, at.todo, at.due, at.found, at.budget, at.then)
      BY <1>3, AtGoto DEF SweepLaneQueues, PCs
    <2>2. ASSUME NEW k \in Lanes PROVE Line(k)' = Line(k)
      <3>1. CASE Releasable(k)
        <4>1. fifo'[k] = Tail(fifo[k]) /\ released'[k] = Append(released[k], Head(fifo[k]))
          BY <1>3, <3>1 DEF SweepLaneQueues
        <4>2. fifo[k] # <<>> /\ fifo[k] \in Seq(Tasks) /\ released[k] \in Seq(Tasks)
          BY <1>0, <3>1 DEF Releasable
        <4> QED BY <4>1, <4>2, LineShift DEF Line
      <3>2. CASE ~Releasable(k)
        BY <1>3, <3>2 DEF SweepLaneQueues, Line
      <3> QED BY <3>1, <3>2
    <2>3. Settled
      BY <1>2, <2>1, <2>2 DEF Settled, Coming, Hunting, AtIs
    <2> QED BY <1>1, <2>1, <2>3 DEF AtIs, FoundLess
  <1>4. CASE Leftover
    <2>1. ASSUME NEW k \in Lanes PROVE Line(k)' = Line(k)
      <3>1. fifo'[k] = released[k] \o fifo[k] /\ released'[k] = <<>>
        BY <1>4 DEF Leftover
      <3>2. released[k] \o fifo[k] \in Seq(Tasks)
        BY <1>0
      <3> QED BY <3>1, <3>2, ConcatEmptySeq DEF Line
    <2>2. at' = Poll
      BY <1>4 DEF Leftover
    <2>3. Settled
      BY <1>2, <2>1, <2>2, AtPollIs DEF Settled, Coming, Hunting
    <2> QED BY <1>1, <2>2, <2>3, AtPollIs
  <1> QED BY <1>3, <1>4

(* The steps that forget a spawn. *)
LEMMA SettledForget ==
  ASSUME TypeInv, NEW t \in Tasks, SweepRead(t) \/ Resolve(t)
  PROVE  Settled /\ FoundLess /\ UNCHANGED <<records, released>>
  <1> USE DEF TypeInv
  <1>1. UNCHANGED <<records, fifo, released>>
    BY DEF SweepRead, Resolve
  <1>2. \A k \in Lanes : Line(k)' = Line(k)
    BY <1>1 DEF Line
  <1>3. CASE SweepRead(t)
    <2>1. at'.pc \in {"sweep", "sweep_drop"} /\ at'.found = at.found
      BY <1>3, SweepReadAt DEF AtIs
    <2>2. Tracked' \subseteq Tracked
      <3>1. CASE Forget(t, Killable(t))
        BY <3>1, ForgetTypes DEF Killable
      <3>2. CASE UNCHANGED spawn
        BY <3>2 DEF Tracked
      <3> QED BY <1>3, <3>1, <3>2 DEF SweepRead
    <2>3. Settled
      BY <1>2, <2>1, <2>2 DEF Settled, Coming, Hunting
    <2> QED BY <1>1, <2>1, <2>3 DEF FoundLess
  <1>4. CASE Resolve(t)
    <2>1. /\ at'.pc = "drop" /\ Forget(t, FALSE)
          /\ at'.found = [u \in DOMAIN at.found \ {t} |-> at.found[u]]
      BY <1>4, ResolveAt DEF AtIs
    <2>2. Tracked' \subseteq Tracked
      BY <2>1, ForgetTypes
    <2>3. Settled
      BY <1>2, <2>1, <2>2 DEF Settled, Coming, Hunting
    <2>4. FoundLess
      BY <2>1 DEF FoundLess
    <2> QED BY <1>1, <2>3, <2>4
  <1> QED BY <1>3, <1>4

(* Settled: the reap; only a task of a lane is refused for a busy one. *)
LEMMA SettledReap ==
  ASSUME TypeInv, Reap
  PROVE  Settled /\ RefusedHasLane' /\ UNCHANGED <<records, released>>
  <1> USE DEF TypeInv
  <1> DEFINE f(seen, late) == [t \in seen \cup late |-> IF t \in late THEN "failure" ELSE Outcome(t)]
  <1>1. PICK seen \in SUBSET Tracked, late \in SUBSET Tracked :
          AtIs("resolve", at.task, at.verb, at.todo, at.due, f(seen, late), at.budget, at.then)
    BY ReapAt
  <1>2. at'.found = f(seen, late) /\ at'.pc = "resolve"
    BY <1>1 DEF AtIs
  <1>3. \A t \in Tasks : Outcome(t) = "lane_busy_refused" => Lane[t] \in Lanes
    BY LaneTyped DEF Outcome
  <1>4. RefusedHasLane'
    BY <1>2, <1>3 DEF RefusedHasLane, Tracked
  <1>5. UNCHANGED <<spawn, records, fifo, released>>
    BY DEF Reap
  <1> QED BY <1>2, <1>4, <1>5, SettledPc

(* A refused delivery joins the tail of its lane's line. *)
LEMMA LinesJoin ==
  ASSUME TablesOK, LinesDistinct, LinesOfLane, NEW t \in Tasks, Lane[t] \in Lanes,
         t \notin Waiting, Joins(t), UNCHANGED released
  PROVE  LinesDistinct' /\ LinesOfLane' /\ Waiting' = Waiting \cup {t}
  <1> DEFINE k == Lane[t]
  <1>0. released \in [Lanes -> Seq(Tasks)] /\ fifo \in [Lanes -> Seq(Tasks)] /\ k \in Lanes
    BY DEF TablesOK
  <1>1. t \notin Elements(Line(k))
    BY <1>0 DEF Waiting
  <1>3. fifo' = [fifo EXCEPT ![k] = Append(fifo[k], t)]
    BY <1>0 DEF Joins
  <1>4. Line(k)' = Append(Line(k), t)
    <2>1. fifo'[k] = Append(fifo[k], t) /\ released'[k] = released[k]
      BY <1>0, <1>3
    <2>2. released[k] \in Seq(Tasks) /\ fifo[k] \in Seq(Tasks)
      BY <1>0
    <2>3. released[k] \o Append(fifo[k], t) = Append(released[k] \o fifo[k], t)
      BY <2>2, LineAppend
    <2> HIDE DEF k
    <2> QED BY <2>1, <2>3, Zenon DEF Line
  <1>5. \A m \in Lanes : m # k => Line(m)' = Line(m)
    BY <1>0, <1>3 DEF Line
  <1>6. Line(k) \in Seq(Tasks)
    BY <1>0, LineTypes
  <1>7. /\ Elements(Line(k)') = Elements(Line(k)) \cup {t}
        /\ Distinct(Line(k)) => Distinct(Line(k)')
    BY <1>1, <1>4, <1>6, ElementsAppend
  <1> HIDE DEF k
  <1>8. LinesDistinct'
    <2> SUFFICES ASSUME NEW m \in Lanes PROVE Distinct(Line(m)')
      BY DEF LinesDistinct, Distinct
    <2> QED BY <1>0, <1>5, <1>7 DEF LinesDistinct
  <1>9. LinesOfLane'
    <2>1. \A m \in Lanes : \A u \in Elements(Line(m)') : Lane[u] = m
      BY <1>0, <1>5, <1>7 DEF LinesOfLane, k
    <2> QED BY <2>1 DEF LinesOfLane, Elements
  <1>10. Waiting' = Waiting \cup {t}
    <2>1. \A m \in Lanes : Elements(Line(m)') = IF m = k THEN Elements(Line(k)) \cup {t} ELSE Elements(Line(m))
      BY <1>5, <1>7
    <2>2. Waiting' = UNION {Elements(Line(m)') : m \in Lanes}
      BY DEF Waiting, Elements
    <2>3. Waiting = UNION {Elements(Line(m)) : m \in Lanes}
      BY DEF Waiting
    <2>4. ASSUME NEW u
          PROVE  u \in Waiting' <=> u \in Waiting \cup {t}
      <3>1. u \in Waiting' <=> \E m \in Lanes : u \in Elements(Line(m)')
        BY <2>2
      <3>2. u \in Waiting <=> \E m \in Lanes : u \in Elements(Line(m))
        BY <2>3
      <3> QED BY <1>0, <2>1, <3>1, <3>2
    <2> QED BY <2>4
  <1> QED BY <1>8, <1>9, <1>10

(* Lines: a refused brief goes back to the end of its lane's line. *)
LEMMA LinesRequeue ==
  ASSUME TypeInv, Books, Lines, NEW t \in Tasks, RequeueBusyRefusal(t)
  PROVE  Lines'
  <1> USE DEF TypeInv
  <1>1. Resolved(t, "none") /\ UNCHANGED released /\ Retriable(t)
        /\ (UNCHANGED fifo \/ Joins(t))
    BY QueueJoins DEF RequeueBusyRefusal
  <1>2. /\ t \in DOMAIN at.found /\ Forget(t, FALSE)
    BY <1>1 DEF Resolved
  <1>3. AtIs("drop", t, "none", at.todo, at.due,
             [u \in DOMAIN at.found \ {t} |-> at.found[u]], at.budget, "resolve")
    BY <1>1, ResolvedAt
  <1>4. Lane[t] \in Lanes
    BY <1>1, <1>2 DEF Retriable, Lines, RefusedHasLane
  <1>5. t \in Tracked
    BY <1>2 DEF Books
  <1>6. t \notin Waiting
    BY <1>5 DEF Lines, Apart
  <1>7. LinesDistinct' /\ LinesOfLane' /\ Waiting' \subseteq Waiting \cup {t}
    <2>1. CASE Joins(t)
      BY <1>1, <1>4, <1>6, <2>1, LinesJoin DEF Lines
    <2>2. CASE UNCHANGED fifo
      BY <1>1, <2>2 DEF Waiting, Line, Lines, LinesDistinct, LinesOfLane
    <2> QED BY <1>1, <2>1, <2>2
  <1>8. Tracked' = Tracked \ {t}
    BY <1>2, ForgetTypes
  <1>9. Apart'
    BY <1>3, <1>7, <1>8 DEF AtIs, Lines, Apart, Coming, Hunting
  <1>10. RefusedHasLane'
    BY <1>3, RefusedStay DEF AtIs, Lines, FoundLess
  <1> QED BY <1>7, <1>9, <1>10 DEF Lines

(* Lines: a released head is taken in hand, off its line. *)
LEMMA LinesSpawnReleased ==
  ASSUME TypeInv, Lines, NEW k \in Lanes, SpawnReleased(k)
  PROVE  Lines' /\ at'.pc = "spawn" /\ at'.then = "released" /\ at'.task = Head(released[k])
         /\ Lane[Head(released[k])] = k
  <1> USE DEF TypeInv
  <1>0. released \in [Lanes -> Seq(Tasks)] /\ fifo \in [Lanes -> Seq(Tasks)]
    BY DEF TablesOK
  <1> DEFINE h == Head(released[k])
  <1>1. h \in Tasks /\ at'.pc = "spawn" /\ at'.task = h /\ at'.then = "released" /\ at'.found = at.found
    BY <1>0, SpawnReleasedAt DEF AtIs
  <1>2. released' = [released EXCEPT ![k] = Tail(released[k])] /\ UNCHANGED <<spawn, fifo>>
        /\ released[k] # <<>>
    BY <1>0 DEF SpawnReleased
  <1>3. Line(k)' = Tail(Line(k)) /\ Head(Line(k)) = h /\ Line(k) # <<>>
    <2>1. released'[k] = Tail(released[k]) /\ fifo'[k] = fifo[k]
      BY <1>0, <1>2
    <2>2. released[k] \in Seq(Tasks) /\ fifo[k] \in Seq(Tasks)
      BY <1>0
    <2> QED BY <1>2, <2>1, <2>2, LineTake DEF Line
  <1>4. \A m \in Lanes : m # k => Line(m)' = Line(m)
    BY <1>0, <1>2 DEF Line
  <1>5. Line(k) \in Seq(Tasks) /\ Distinct(Line(k))
    BY LineTypes DEF Lines, LinesDistinct
  <1>6. Elements(Line(k)') \subseteq Elements(Line(k)) \ {h} /\ Distinct(Line(k)')
    BY <1>3, <1>5, ElementsTail
  <1>7. h \in Elements(Line(k))
    BY <1>3, <1>5, ElementsOf
  <1>8. Lane[h] = k
    BY <1>7 DEF Lines, LinesOfLane
  <1> HIDE DEF h
  <1>9. \A m \in Lanes : Elements(Line(m)') \subseteq Elements(Line(m)) \ {h}
    BY <1>4, <1>6, <1>8 DEF Lines, LinesOfLane
  <1>10. LinesDistinct'
    <2> SUFFICES ASSUME NEW m \in Lanes PROVE Distinct(Line(m)')
      BY DEF LinesDistinct, Distinct
    <2> QED BY <1>4, <1>6 DEF Lines, LinesDistinct
  <1>11. LinesOfLane'
    <2>1. \A m \in Lanes : \A u \in Elements(Line(m)') : Lane[u] = m
      BY <1>9 DEF Lines, LinesOfLane
    <2> QED BY <2>1 DEF LinesOfLane, Elements
  <1>12. Waiting' \subseteq Waiting \ {h} /\ h \in Waiting
    <2>1. Waiting' = UNION {Elements(Line(m)') : m \in Lanes}
      BY DEF Waiting, Elements
    <2> QED BY <1>7, <1>9, <2>1 DEF Waiting
  <1>13. Tracked' = Tracked
    BY <1>2 DEF Tracked
  <1>14. Apart'
    BY <1>1, <1>12, <1>13 DEF Lines, Apart, Coming, Hunting
  <1>15. RefusedHasLane'
    BY <1>1, RefusedStay DEF Lines, FoundLess
  <1> QED BY <1>1, <1>8, <1>10, <1>11, <1>14, <1>15 DEF Lines, h

(* Lines: the candidates are neither tracked nor on a line. *)
LEMMA LinesFetch ==
  ASSUME TypeInv, Lines, Fetch
  PROVE  Lines'
  <1> USE DEF TypeInv
  <1>1. UNCHANGED <<spawn, fifo, released>>
    BY DEF Fetch
  <1>2. CASE at' = Poll
    <2>1. at'.pc = "poll" /\ DOMAIN at'.found = {}
      BY <1>2, AtPollIs
    <2> QED BY <1>1, <2>1, SettledPc, LinesStay, RefusedStay DEF Lines
  <1>3. CASE AtIs("candidates", at.task, at.verb, Candidates, at.due, at.found, at.budget, at.then)
    <2>1. at'.todo \cap (Tracked \cup Waiting) = {}
      BY <1>3, WaitingQueued DEF AtIs, Candidates
    <2>2. Waiting' = Waiting /\ Tracked' = Tracked /\ LinesDistinct' /\ LinesOfLane'
      BY <1>1, Unmoved DEF Waiting, Lines, LinesDistinct, LinesOfLane
    <2>3. Coming' = {}
      BY <1>3 DEF Coming, AtIs
    <2>4. Apart'
      BY <2>1, <2>2, <2>3 DEF Apart, Lines
    <2>5. RefusedHasLane'
      BY <1>3, RefusedStay DEF AtIs, Lines, FoundLess
    <2> QED BY <2>2, <2>4, <2>5 DEF Lines
  <1> QED BY <1>2, <1>3, FetchAt

(* Lines: a candidate joins its lane's line, or is taken in hand. *)
LEMMA LinesCandidate ==
  ASSUME TypeInv, Lines, NEW t \in Tasks, Candidate(t)
  PROVE  Lines'
  <1> USE DEF TypeInv
  <1>1. t \in at.todo /\ at.pc = "candidates"
    BY CandidateAt
  <1>2. t \notin Tracked \cup Waiting /\ at.todo \cap (Tracked \cup Waiting) = {}
    BY <1>1 DEF Lines, Apart, Hunting
  <1>3. UNCHANGED <<spawn, released>> /\ Tracked' = Tracked
    BY DEF Candidate, Tracked
  <1>4. at'.found = at.found
    BY CandidateAt DEF AtIs
  <1>5. RefusedHasLane'
    BY <1>4, RefusedStay DEF Lines, FoundLess
  <1>6. CASE /\ AtIs("candidates", at.task, at.verb, at.todo \ {t}, at.due, at.found, at.budget, at.then)
             /\ UNCHANGED fifo
    <2>1. Settled
      BY <1>1, <1>3, <1>6, Unmoved DEF Settled, Coming, Hunting, AtIs
    <2> QED BY <1>5, <2>1, LinesStay
  <1>7. CASE /\ AtIs("candidates", at.task, at.verb, at.todo \ {t}, at.due, at.found, at.budget, at.then)
             /\ Joins(t) /\ Lane[t] \in Lanes
    <2>1. LinesDistinct' /\ LinesOfLane' /\ Waiting' = Waiting \cup {t}
      BY <1>2, <1>3, <1>7, LinesJoin DEF Lines
    <2>2. Coming' = {} /\ at'.todo = at.todo \ {t}
      BY <1>7 DEF Coming, AtIs
    <2>3. Apart'
      BY <1>2, <1>3, <2>1, <2>2 DEF Apart, Lines
    <2> QED BY <1>5, <2>1, <2>3 DEF Lines
  <1>8. ASSUME UNCHANGED fifo, NEW b,
               AtIs("spawn", t, at.verb, at.todo \ {t}, at.due, at.found, b, "candidates")
        PROVE  Lines'
    <2>1. Waiting' = Waiting /\ LinesDistinct' /\ LinesOfLane'
      BY <1>3, <1>8, Unmoved DEF Waiting, Lines, LinesDistinct, LinesOfLane
    <2>2. Coming' = {t} /\ at'.todo = at.todo \ {t}
      BY <1>8 DEF Coming, AtIs
    <2>3. Apart'
      BY <1>2, <1>3, <2>1, <2>2 DEF Apart, Lines
    <2> QED BY <1>5, <2>1, <2>3 DEF Lines
  <1> QED BY <1>6, <1>7, <1>8, CandidateAt

(* Lines: a task in hand joins its lane's line again. *)
LEMMA LinesSpawnQueued ==
  ASSUME TypeInv, Lines, SpawnQueued
  PROVE  Lines'
  <1> USE DEF TypeInv
  <1> DEFINE t == at.task
  <1>1. /\ at.pc = "spawn" /\ t \in Tasks /\ Lane[t] \in Lanes
        /\ at.then \in {"released", "candidates"} /\ (UNCHANGED fifo \/ Joins(t))
        /\ AtIs(at.then, at.task, at.verb, at.todo, at.due, at.found, at.budget, at.then)
    BY SpawnQueuedAt
  <1>2. UNCHANGED <<spawn, released>> /\ Tracked' = Tracked
    BY DEF SpawnQueued, Tracked
  <1>3. Coming = {t} /\ Coming' = {} /\ (Hunting' => Hunting) /\ at'.todo = at.todo
    BY <1>1 DEF Coming, Hunting, AtIs
  <1>4. RefusedHasLane'
    BY <1>1, RefusedStay DEF AtIs, Lines, FoundLess
  <1> HIDE DEF t
  <1>5. t \notin Tracked \cup Waiting /\ (Hunting => t \notin at.todo)
    BY <1>3 DEF Lines, Apart
  <1>6. CASE UNCHANGED fifo
    <2>1. Settled
      BY <1>2, <1>3, <1>6, Unmoved DEF Settled
    <2> QED BY <1>4, <2>1, LinesStay
  <1>7. CASE Joins(t)
    <2>1. LinesDistinct' /\ LinesOfLane' /\ Waiting' = Waiting \cup {t}
      BY <1>1, <1>2, <1>5, <1>7, LinesJoin DEF Lines
    <2>2. Apart'
      BY <1>2, <1>3, <1>5, <2>1 DEF Apart, Lines
    <2> QED BY <1>4, <2>1, <2>2 DEF Lines
  <1> QED BY <1>1, <1>6, <1>7

(* Lines: the task in hand becomes a tracked spawn. *)
LEMMA LinesTrack ==
  ASSUME TypeInv, Lines, Track
  PROVE  Lines'
  <1> USE DEF TypeInv
  <1>1. at.pc = "track" /\ at.task \in Tasks /\ at.then \in {"released", "candidates"}
    BY DEF Track, AtOK
  <1>2. AtIs(at.then, at.task, at.verb, at.todo, at.due, at.found, at.budget, at.then)
    BY <1>1, AtGoto DEF Track, PCs
  <1>3. Tracked' = Tracked \cup {at.task} /\ UNCHANGED <<fifo, released>>
    BY <1>1 DEF Track, Tracked, TablesOK
  <1>4. Waiting' = Waiting /\ LinesDistinct' /\ LinesOfLane'
    BY <1>3 DEF Waiting, Line, Lines, LinesDistinct, LinesOfLane
  <1>5. Coming = {at.task} /\ Coming' = {} /\ (Hunting' => Hunting) /\ at'.todo = at.todo
    BY <1>1, <1>2 DEF Coming, Hunting, AtIs
  <1>6. Apart'
    BY <1>3, <1>4, <1>5 DEF Apart, Lines
  <1>7. RefusedHasLane'
    BY <1>2, RefusedStay DEF AtIs, Lines, FoundLess
  <1> QED BY <1>4, <1>6, <1>7 DEF Lines

(* An empty line has no elements. *)
LEMMA NoElements == <<>> \o <<>> = <<>> /\ Elements(<<>>) = {}
  <1>1. <<>> \in Seq(Tasks) /\ Len(<<>>) = 0
    BY EmptySeq
  <1>2. <<>> \o <<>> = <<>>
    BY <1>1, ConcatEmptySeq
  <1>3. Elements(<<>>) = {}
    BY <1>1 DEF Elements
  <1> QED BY <1>2, <1>3

(* Lines: nothing waits and nothing is in hand. *)
LEMMA LinesEmpty ==
  ASSUME \A k \in Lanes : fifo[k] = <<>> /\ released[k] = <<>>, at = Poll
  PROVE  Lines
  <1>1. \A k \in Lanes : Line(k) = <<>> /\ Elements(Line(k)) = {}
    BY NoElements DEF Line
  <1>2. at.pc = "poll" /\ DOMAIN at.found = {}
    BY AtPollIs
  <1>3. Waiting = {} /\ LinesDistinct /\ LinesOfLane
    BY <1>1 DEF Waiting, LinesDistinct, LinesOfLane, Distinct
  <1> QED BY <1>2, <1>3 DEF Lines, Apart, Coming, Hunting, RefusedHasLane

(* Lines: main, the children and the clock; a crash loses every line. *)
LEMMA LinesAround ==
  ASSUME TypeInv, Lines,
         \/ \E t \in Tasks : Assign(t) \/ Cancel(t) \/ Recover(t) \/ Exit(t) \/ StrayExit(t) \/ Cool(t)
         \/ \E k \in Lanes : LaneReported(k)
         \/ Crash
  PROVE  Lines'
  <1>1. CASE ~Crash
    <2>1. UNCHANGED <<spawn, fifo, released, at>>
      BY <1>1 DEF Assign, Cancel, Recover, Exit, StrayExit, Cool, LaneReported, others
    <2>2. Settled /\ RefusedHasLane'
      BY <2>1, Unmoved DEF Settled, Coming, Hunting, Lines, RefusedHasLane
    <2> QED BY <2>2, LinesStay
  <1>2. CASE Crash
    <2>1. (\A k \in Lanes : fifo'[k] = <<>> /\ released'[k] = <<>>) /\ at' = Poll
      BY <1>2 DEF Crash
    <2>2. \A k \in Lanes : Line(k)' = <<>> /\ Elements(Line(k)') = {}
      BY <2>1, NoElements DEF Line
    <2>3. at'.pc = "poll" /\ DOMAIN at'.found = {}
      BY <2>1, AtPollIs
    <2>4. Waiting' = {}
      <3>1. Waiting' = UNION {Elements(Line(k)') : k \in Lanes}
        BY DEF Waiting, Elements
      <3> QED BY <2>2, <3>1
    <2>5. LinesDistinct' /\ LinesOfLane'
      <3>1. \A k \in Lanes : Distinct(Line(k)')
        BY <2>2 DEF Distinct
      <3>2. \A k \in Lanes : \A u \in Elements(Line(k)') : Lane[u] = k
        BY <2>2
      <3> QED BY <3>1, <3>2 DEF LinesDistinct, LinesOfLane, Distinct, Elements
    <2> QED BY <2>3, <2>4, <2>5 DEF Lines, Apart, Coming, Hunting, RefusedHasLane
  <1> QED BY <1>1, <1>2

(* Lines: every step. *)
LEMMA LinesNext ==
  ASSUME TypeInv, Books, Lines, [Next]_vars
  PROVE  Lines'
  <1>1. CASE \/ PollOnce \/ SweepEnd \/ ResolveEnd \/ DrainStart \/ DrainEnd \/ Renew \/ Gate
             \/ CandidatesEnd \/ PopenFailed
             \/ SweepAck \/ Report \/ _report_blocked \/ _requeue_task \/ ReleaseMisplaced
             \/ ReapIdleLanes \/ Popen \/ SweepDrop \/ Drop
             \/ (\E r \in Retried \X Tasks : DrainPost(r))
             \/ SweepLaneQueues \/ Leftover
             \/ (\E t \in Tasks : SweepRead(t) \/ Resolve(t))
    <2>1. Settled /\ (FoundLess \/ DOMAIN at'.found = {})
      BY <1>1, SettledQuiet, SettledAsk, SettledMid, SettledQueues, SettledForget
    <2> QED BY <2>1, LinesStay, RefusedStay DEF Lines
  <1>2. CASE Reap
    BY <1>2, SettledReap, LinesStay
  <1>3. CASE UNCHANGED vars
    <2>1. Settled /\ RefusedHasLane'
      BY <1>3, Unmoved DEF vars, Settled, Coming, Hunting, Lines, RefusedHasLane
    <2> QED BY <2>1, LinesStay
  <1> QED BY <1>1, <1>2, <1>3, LinesRequeue, LinesSpawnReleased, LinesFetch, LinesCandidate,
             LinesSpawnQueued, LinesTrack, LinesAround DEF Next, Cycle

(* Lines holds initially. *)
LEMMA LinesInit == Init => Lines
  BY LinesEmpty DEF Init

(* #858: a task is in flight, or it waits once, in the queue of its lane;  *)
(* no rescan, refusal, released head or restart has its brief delivered    *)
(* twice.                                                                  *)
THEOREM PlaceSafety == Spec => []OnePlace
  <1>1. TypeInv /\ Lines => OnePlace
    BY LinesOnePlace DEF TypeInv
  <1> QED BY <1>1, TypesInit, TypesNext, BooksInit, BooksNext, LinesInit, LinesNext, PTL DEF Spec

----------------------------------------------------------------------------
(* One delivery per lane *)

(* No lane has a second released head: no earlier one was left unspawned   *)
(* by a full node or a full disk.                                          *)
OneHead == \A k \in Lanes : Len(released[k]) <= 1

(* What occupies its lane, a spawn whose record is being dropped included: *)
(* a restart at that point brings it back.                                 *)
InFlight == records \cup Coming

Serial ==
    /\ \A t, u \in InFlight : Lane[t] = Lane[u] /\ Lane[t] # NoLane => t = u
    /\ \A k \in Lanes : released[k] # <<>> => \A t \in InFlight : Lane[t] # k
    /\ Hunting => \A k \in Lanes : released[k] = <<>>

(* Serial: a step after which nothing new is in flight or released. *)
LEMMA SerialStay ==
  ASSUME Serial, InFlight' \subseteq InFlight, Hunting' => Hunting,
         \A k \in Lanes : released'[k] # <<>> => released[k] # <<>>
  PROVE  Serial'
  BY DEF Serial

(* The same of a settled step. *)
LEMMA SerialSettled ==
  ASSUME Serial, Settled, records' \subseteq records, UNCHANGED released
  PROVE  Serial'
  <1>1. InFlight' \subseteq InFlight /\ (Hunting' => Hunting)
    BY DEF InFlight, Settled
  <1> QED BY <1>1, SerialStay

(* Serial: a head is released only from a lane with nothing in flight. *)
LEMMA SerialQueues ==
  ASSUME TypeInv, Books, Serial, SweepLaneQueues
  PROVE  Serial'
  <1> USE DEF TypeInv
  <1>1. AtIs("renew", at.task, at.verb, at.todo, at.due, at.found, at.budget, at.then)
        /\ at.pc = "queues" /\ UNCHANGED records
    BY AtGoto DEF SweepLaneQueues, PCs
  <1>2. Coming = {} /\ Coming' = {} /\ ~Hunting' /\ records = Tracked
    BY <1>1 DEF Coming, Hunting, AtIs, Books, Leaving
  <1>3. InFlight' = Tracked /\ InFlight = Tracked
    BY <1>1, <1>2 DEF InFlight
  <1>4. ASSUME NEW k \in Lanes, released'[k] # <<>>, NEW t \in Tracked
        PROVE  Lane[t] # k
    <2>1. CASE Releasable(k)
      BY <2>1 DEF Releasable, LaneBusy
    <2>2. CASE ~Releasable(k)
      <3>1. released[k] # <<>>
        BY <1>4, <2>2 DEF SweepLaneQueues
      <3> QED BY <1>3, <3>1 DEF Serial
    <2> QED BY <2>1, <2>2
  <1> QED BY <1>2, <1>3, <1>4 DEF Serial

(* Serial: heads left over go back to the front of their lanes' queues. *)
LEMMA SerialLeftover ==
  ASSUME TypeInv, Serial, Leftover
  PROVE  Serial'
  <1>1. at' = Poll /\ UNCHANGED records /\ \A k \in Lanes : released'[k] = <<>>
    BY DEF Leftover
  <1>2. Coming' = {} /\ ~Hunting'
    BY <1>1, AtPollIs DEF Coming, Hunting
  <1> QED BY <1>1, <1>2, SerialStay DEF InFlight

(* The head of a lane that has no other is spawned: with a second one, its *)
(* lane would be occupied while that one waits to be spawned.              *)
LEMMA SerialSpawnReleased ==
  ASSUME TypeInv, Lines, Serial, OneHead, NEW k \in Lanes, SpawnReleased(k)
  PROVE  Serial'
  <1> USE DEF TypeInv
  <1> DEFINE h == Head(released[k])
  <1>1. at'.pc = "spawn" /\ at'.then = "released" /\ at'.task = h /\ Lane[h] = k
    BY LinesSpawnReleased
  <1>2. released[k] \in Seq(Tasks) /\ Len(released[k]) <= 1 /\ released[k] # <<>>
        /\ at.pc = "released" /\ UNCHANGED records
    BY DEF TablesOK, OneHead, SpawnReleased
  <1>3. released' = [released EXCEPT ![k] = Tail(released[k])] /\ DOMAIN released = Lanes
    BY DEF SpawnReleased, TablesOK
  <1>4. Tail(released[k]) = <<>>
    <2>1. Tail(released[k]) \in Seq(Tasks) /\ Len(Tail(released[k])) = Len(released[k]) - 1
      BY <1>2, HeadTailProperties
    <2>2. Len(Tail(released[k])) \in Nat /\ Len(released[k]) \in Nat
      BY <1>2, <2>1
    <2>3. Len(Tail(released[k])) = 0
      <3> DEFINE m == Len(Tail(released[k]))
                 n == Len(released[k])
      <3>1. m \in Nat /\ n \in Nat /\ m = n - 1 /\ n <= 1
        BY <1>2, <2>1, <2>2
      <3> HIDE DEF m, n
      <3>2. m = 0
        BY <3>1
      <3> QED BY <3>2 DEF m
    <2> QED BY <2>1, <2>3, EmptySeq
  <1> HIDE DEF h
  <1>5. Coming = {} /\ Coming' = {h} /\ ~Hunting'
    BY <1>1, <1>2 DEF Coming, Hunting
  <1>6. InFlight = records /\ InFlight' = records \cup {h}
    BY <1>2, <1>5 DEF InFlight
  <1>7. \A t \in records : Lane[t] # k
    BY <1>2, <1>6 DEF Serial
  <1>8. \A m \in Lanes : released'[m] # <<>> => m # k /\ released[m] # <<>>
    BY <1>3, <1>4
  <1> QED BY <1>1, <1>5, <1>6, <1>7, <1>8 DEF Serial

(* Serial: the fetch, which no released head precedes. *)
LEMMA SerialFetch ==
  ASSUME TypeInv, Serial, Fetch
  PROVE  Serial'
  <1> USE DEF TypeInv
  <1>1. UNCHANGED <<records, released>> /\ \A k \in Lanes : released[k] = <<>>
    BY DEF Fetch
  <1>2. at'.pc \in {"poll", "candidates"}
    BY FetchAt, AtPollIs DEF AtIs
  <1>3. Coming' = {}
    BY <1>2 DEF Coming
  <1> QED BY <1>1, <1>3 DEF Serial, InFlight

(* Serial: a candidate is taken in hand only if its lane is free. *)
LEMMA SerialCandidate ==
  ASSUME TypeInv, Books, Serial, NEW t \in Tasks, Candidate(t)
  PROVE  Serial'
  <1> USE DEF TypeInv
  <1>1. at.pc = "candidates" /\ UNCHANGED <<records, released>>
    BY DEF Candidate
  <1>2. Hunting /\ Coming = {} /\ records = Tracked /\ InFlight = Tracked
    BY <1>1 DEF Hunting, Coming, Books, Leaving, InFlight
  <1>3. \A k \in Lanes : released'[k] = <<>>
    BY <1>1, <1>2 DEF Serial
  <1>4. CASE at'.pc = "candidates"
    BY <1>1, <1>2, <1>3, <1>4 DEF Serial, InFlight, Coming
  <1>5. CASE at'.pc = "spawn" /\ at'.task = t /\ (Lane[t] # NoLane => ~LaneBusy(Lane[t]))
    <2>1. InFlight' = Tracked \cup {t}
      BY <1>1, <1>2, <1>5 DEF InFlight, Coming
    <2>2. \A u \in Tracked : Lane[t] # NoLane => Lane[u] # Lane[t]
      BY <1>5 DEF LaneBusy
    <2> QED BY <1>2, <1>3, <2>1, <2>2 DEF Serial
  <1> QED BY <1>4, <1>5, CandidateAt DEF AtIs

(* Serial: the task in hand gets its record. *)
LEMMA SerialTrack ==
  ASSUME TypeInv, Serial, Track
  PROVE  Serial'
  <1> USE DEF TypeInv
  <1>1. at.pc = "track" /\ at.task \in Tasks /\ at.then \in {"released", "candidates"}
    BY DEF Track, AtOK
  <1>2. AtIs(at.then, at.task, at.verb, at.todo, at.due, at.found, at.budget, at.then)
    BY <1>1, AtGoto DEF Track, PCs
  <1>3. records' = records \cup {at.task} /\ UNCHANGED released
    BY DEF Track
  <1>4. Coming = {at.task} /\ Coming' = {} /\ (Hunting' => Hunting)
    BY <1>1, <1>2 DEF Coming, Hunting, AtIs
  <1> QED BY <1>3, <1>4, SerialStay DEF InFlight

(* Serial: a crash brings back recorded spawns only. *)
LEMMA SerialAround ==
  ASSUME TypeInv, Serial,
         \/ \E t \in Tasks : Assign(t) \/ Cancel(t) \/ Recover(t) \/ Exit(t) \/ StrayExit(t) \/ Cool(t)
         \/ \E k \in Lanes : LaneReported(k)
         \/ Crash
  PROVE  Serial'
  <1>1. CASE ~Crash
    <2>1. UNCHANGED <<records, released, at>>
      BY <1>1 DEF Assign, Cancel, Recover, Exit, StrayExit, Cool, LaneReported, others
    <2> QED BY <2>1 DEF Serial, InFlight, Coming, Hunting
  <1>2. CASE Crash
    <2>1. UNCHANGED records /\ at' = Poll /\ \A k \in Lanes : released'[k] = <<>>
      BY <1>2 DEF Crash
    <2>2. Coming' = {} /\ ~Hunting'
      BY <2>1, AtPollIs DEF Coming, Hunting
    <2> QED BY <2>1, <2>2, SerialStay DEF InFlight
  <1> QED BY <1>1, <1>2

(* Serial: every step of a worker that does not look at a lane again before *)
(* it spawns, as long as lanes have one released head.                      *)
LEMMA SerialNext ==
  ASSUME TypeInv, Books, Lines, Serial, ~native, OneHead, [Next]_vars
  PROVE  Serial'
  <1>1. CASE \/ PollOnce \/ SweepEnd \/ ResolveEnd \/ DrainStart \/ DrainEnd \/ Renew \/ Gate
             \/ CandidatesEnd \/ PopenFailed
             \/ SweepAck \/ Report \/ _report_blocked \/ _requeue_task \/ ReleaseMisplaced
             \/ ReapIdleLanes \/ Popen \/ SweepDrop \/ Drop
             \/ (\E r \in Retried \X Tasks : DrainPost(r))
             \/ (\E t \in Tasks : SweepRead(t) \/ Resolve(t))
             \/ Reap
    <2>1. Settled /\ records' \subseteq records /\ UNCHANGED released
      BY <1>1, SettledQuiet, SettledAsk, SettledMid, SettledForget, SettledReap
    <2> QED BY <2>1, SerialSettled
  <1>2. ASSUME NEW t \in Tasks, RequeueBusyRefusal(t)
        PROVE  Serial'
    <2>1. UNCHANGED <<records, released>> /\ Resolved(t, "none")
      BY <1>2 DEF RequeueBusyRefusal
    <2>2. at'.pc = "drop"
      BY <2>1, ResolvedAt DEF AtIs, TypeInv
    <2>3. Coming' = {} /\ ~Hunting'
      BY <2>2 DEF Coming, Hunting
    <2> QED BY <2>1, <2>3, SerialStay DEF InFlight
  <1>3. CASE UNCHANGED vars
    BY <1>3 DEF vars, Serial, InFlight, Coming, Hunting
  <1>4. ~SpawnQueued
    BY SpawnQueuedAt
  <1> QED BY <1>1, <1>2, <1>3, <1>4, SerialQueues, SerialLeftover, SerialSpawnReleased, SerialFetch,
             SerialCandidate, SerialTrack, SerialAround DEF Next, Cycle

(* Serial holds initially. *)
LEMMA SerialInit == Init => Serial
  <1> SUFFICES ASSUME Init PROVE Serial
    OBVIOUS
  <1>1. at.pc = "poll" /\ records = {} /\ \A k \in Lanes : released[k] = <<>>
    BY AtPollIs DEF Init
  <1> QED BY <1>1 DEF Serial, InFlight, Coming, Hunting

(* What a native worker has in a lane: its records and the child it is     *)
(* about to track.  A task in hand is not yet there: the lane is looked at *)
(* again when it is spawned.                                               *)
InHand == IF at.pc = "track" THEN {at.task} ELSE {}
Occupying == records \cup InHand
NativeSerial == \A t, u \in Occupying : Lane[t] = Lane[u] /\ Lane[t] # NoLane => t = u

(* NativeSerial: a step after which nothing new occupies a lane. *)
LEMMA NativeStay ==
  ASSUME NativeSerial, Occupying' \subseteq Occupying
  PROVE  NativeSerial'
  BY DEF NativeSerial

(* NativeSerial: a settled step that starts no child. *)
LEMMA NativeSettled ==
  ASSUME NativeSerial, Settled, records' \subseteq records,
         at'.pc = "track" => at.pc # "spawn"
  PROVE  NativeSerial'
  <1>1. InHand' \subseteq InHand
    BY DEF InHand, Settled, Coming
  <1> QED BY <1>1, NativeStay DEF Occupying

(* NativeSerial: a child starts only in a lane that has none tracked. *)
LEMMA NativePopen ==
  ASSUME TypeInv, Books, NativeSerial, native, Popen
  PROVE  NativeSerial'
  <1>1. at.pc = "spawn" /\ ~Guarded(at.task) /\ UNCHANGED records
    BY DEF Popen
  <1>2. at'.pc = "track" /\ at'.task = at.task
    BY AtGoto DEF Popen, PCs, AtIs, TypeInv
  <1>3. records = Tracked
    BY <1>1 DEF Books, Leaving
  <1>4. \A t \in records : Lane[at.task] # NoLane => Lane[t] # Lane[at.task]
    BY <1>1, <1>3 DEF Guarded, LaneBusy
  <1>5. Occupying' = records \cup {at.task} /\ records \subseteq Occupying
    BY <1>1, <1>2 DEF Occupying, InHand
  <1> QED BY <1>4, <1>5 DEF NativeSerial

(* NativeSerial: the steps of the loop that take up or put back a task. *)
LEMMA NativeChoose ==
  ASSUME TypeInv, NativeSerial,
         \/ SpawnQueued \/ Fetch \/ Track
         \/ \E t \in Tasks : RequeueBusyRefusal(t) \/ Candidate(t)
         \/ \E k \in Lanes : SpawnReleased(k)
  PROVE  NativeSerial'
  <1> USE DEF TypeInv
  <1>1. CASE Track
    <2>1. at.pc = "track" /\ at.then \in {"released", "candidates"}
          /\ records' = records \cup {at.task}
      BY <1>1 DEF Track, AtOK
    <2>2. at'.pc = at.then
      BY <1>1, <2>1, AtGoto DEF Track, PCs, AtIs
    <2>3. InHand = {at.task} /\ InHand' = {}
      BY <2>1, <2>2 DEF InHand
    <2> QED BY <2>1, <2>3, NativeStay DEF Occupying
  <1>2. ASSUME UNCHANGED records, at'.pc # "track"
        PROVE  NativeSerial'
    BY <1>2, NativeStay DEF Occupying, InHand
  <1>3. CASE SpawnQueued
    <2>1. UNCHANGED records
      BY <1>3 DEF SpawnQueued
    <2> QED BY <1>2, <1>3, <2>1, SpawnQueuedAt DEF AtIs
  <1>4. CASE Fetch
    <2>1. UNCHANGED records
      BY <1>4 DEF Fetch
    <2>2. at'.pc # "track"
      BY <1>4, FetchAt, AtPollIs DEF AtIs
    <2> QED BY <1>2, <2>1, <2>2
  <1>5. ASSUME NEW t \in Tasks, RequeueBusyRefusal(t)
        PROVE  NativeSerial'
    <2>1. UNCHANGED records /\ Resolved(t, "none")
      BY <1>5 DEF RequeueBusyRefusal
    <2> QED BY <1>2, <2>1, ResolvedAt DEF AtIs
  <1>6. ASSUME NEW t \in Tasks, Candidate(t)
        PROVE  NativeSerial'
    <2>1. UNCHANGED records
      BY <1>6 DEF Candidate
    <2> QED BY <1>2, <1>6, <2>1, CandidateAt DEF AtIs
  <1>7. ASSUME NEW k \in Lanes, SpawnReleased(k)
        PROVE  NativeSerial'
    <2>1. UNCHANGED records /\ released \in [Lanes -> Seq(Tasks)]
      BY <1>7 DEF SpawnReleased, TablesOK
    <2> QED BY <1>2, <1>7, <2>1, SpawnReleasedAt DEF AtIs
  <1> QED BY <1>1, <1>3, <1>4, <1>5, <1>6, <1>7

(* NativeSerial: main, the children, the clock; a crash brings back what   *)
(* was recorded.                                                           *)
LEMMA NativeAround ==
  ASSUME TypeInv, NativeSerial,
         \/ \E t \in Tasks : Assign(t) \/ Cancel(t) \/ Recover(t) \/ Exit(t) \/ StrayExit(t) \/ Cool(t)
         \/ \E k \in Lanes : LaneReported(k)
         \/ Crash
  PROVE  NativeSerial'
  <1>1. CASE ~Crash
    <2>1. UNCHANGED <<records, at>>
      BY <1>1 DEF Assign, Cancel, Recover, Exit, StrayExit, Cool, LaneReported, others
    <2> QED BY <2>1 DEF NativeSerial, Occupying, InHand
  <1>2. CASE Crash
    <2>1. UNCHANGED records /\ at'.pc = "poll"
      BY <1>2, AtPollIs DEF Crash
    <2> QED BY <2>1, NativeStay DEF Occupying, InHand
  <1> QED BY <1>1, <1>2

(* NativeSerial: every step of a native worker, whatever waits. *)
LEMMA NativeNext ==
  ASSUME TypeInv, Books, Lines, NativeSerial, native, [Next]_vars
  PROVE  NativeSerial'
  <1>1. CASE \/ PollOnce \/ SweepEnd \/ ResolveEnd \/ DrainStart \/ DrainEnd \/ Renew \/ Gate
             \/ CandidatesEnd \/ SweepAck \/ Report \/ _report_blocked \/ _requeue_task
             \/ ReapIdleLanes \/ SweepDrop \/ Drop
             \/ (\E r \in Retried \X Tasks : DrainPost(r))
             \/ SweepLaneQueues \/ Leftover
             \/ (\E t \in Tasks : SweepRead(t) \/ Resolve(t))
             \/ Reap
    <2>1. Settled /\ records' \subseteq records
      BY <1>1, SettledQuiet, SettledAsk, SettledMid, SettledQueues, SettledForget, SettledReap
    <2>2. at.pc # "spawn"
      BY <1>1 DEF PollOnce, SweepEnd, ResolveEnd, DrainStart, DrainEnd, Renew, Gate, CandidatesEnd,
                  SweepAck, Report, _report_blocked, _requeue_task, ReportOnce, ReapIdleLanes,
                  SweepDrop, Drop, DrainPost, SweepLaneQueues, Leftover, SweepRead, Resolve,
                  Resolved, Reap
    <2> QED BY <2>1, <2>2, NativeSettled
  <1>2. CASE ReleaseMisplaced \/ PopenFailed
    <2>1. Settled /\ UNCHANGED records
      BY <1>2, SettledQuiet, SettledAsk
    <2>2. CASE ReleaseMisplaced
      <3>1. at.then \in {"released", "candidates"} /\ Goto(at.then)
        BY <2>2 DEF ReleaseMisplaced, TypeInv, AtOK
      <3>2. at'.pc # "track"
        BY <3>1, AtGoto DEF AtIs, PCs, TypeInv
      <3> QED BY <2>1, <3>2, NativeSettled
    <2>3. CASE PopenFailed
      <3>1. at'.pc # "track"
        BY <2>3, PopenFailedAt DEF AtIs, TypeInv
      <3> QED BY <2>1, <3>1, NativeSettled
    <2> QED BY <1>2, <2>2, <2>3
  <1>3. CASE UNCHANGED vars
    BY <1>3 DEF vars, NativeSerial, Occupying, InHand
  <1> QED BY <1>1, <1>2, <1>3, NativePopen, NativeChoose, NativeAround DEF Next, Cycle

(* One delivery per lane, in either mode. *)
SerialInv == (native => NativeSerial) /\ (~native => Serial)

(* SerialInv: every step; the mode never changes. *)
LEMMA SerialInvNext ==
  ASSUME TypeInv, Books, Lines, SerialInv, native \/ OneHead, [Next]_vars
  PROVE  SerialInv'
  <1>1. UNCHANGED native
    BY DEF Next, Cycle, Assign, Cancel, Recover, Exit, StrayExit, Cool, LaneReported, Crash,
           others, vars
  <1>2. CASE native
    BY <1>1, <1>2, NativeNext DEF SerialInv
  <1>3. CASE ~native
    BY <1>1, <1>3, SerialNext DEF SerialInv
  <1> QED BY <1>2, <1>3

(* SerialInv holds initially. *)
LEMMA SerialInvInit == Init => SerialInv
  <1> SUFFICES ASSUME Init PROVE SerialInv
    OBVIOUS
  <1>1. Occupying = {}
    BY AtPollIs DEF Init, Occupying, InHand
  <1> QED BY <1>1, SerialInit DEF SerialInv, NativeSerial

(* #858: a native worker never has two deliveries of one lane in flight,   *)
(* restarts included: it looks at the lane again before it spawns.  A      *)
(* bdaya-dispatch worker does not, and never has two as long as no lane    *)
(* has two released heads.                                                 *)
THEOREM LaneSafety == Spec /\ [](native \/ OneHead) => []LaneSerial
  <1>1. Books /\ SerialInv => LaneSerial
    <2> SUFFICES ASSUME Books, SerialInv PROVE LaneSerial
      OBVIOUS
    <2>1. Tracked \subseteq records
      BY DEF Books
    <2>2. Tracked \subseteq InFlight /\ Tracked \subseteq Occupying
      BY <2>1 DEF InFlight, Occupying
    <2> QED BY <2>2 DEF SerialInv, Serial, NativeSerial, LaneSerial
  <1> QED BY <1>1, TypesInit, TypesNext, BooksInit, BooksNext, LinesInit, LinesNext,
             SerialInvInit, SerialInvNext, PTL DEF Spec
=============================================================================
