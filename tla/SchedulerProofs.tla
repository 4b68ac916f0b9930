-------------------------- MODULE SchedulerProofs --------------------------
(***************************************************************************)
(* The loop of a scheduling pass computes one of the outcomes Planner      *)
(* allows, and is fair, for any tasks, nodes, slots, pins and cursor.  The *)
(* invariant is the loop's: what it says of the tasks gone through (Done)  *)
(* is final, because the loads a task met count exactly the tasks placed   *)
(* before it, and loads only grow while a pass runs.                       *)
(***************************************************************************)
EXTENDS Scheduler, FiniteSetTheorems, WellFoundedInduction, TLAPS

USE PlannerAssumption, SchedulerAssumption

Owners == Nodes \cup {NoNode}
Pins == [Lanes -> Owners]
Befores == [status : [Tasks -> Status], assigned : [Tasks -> Owners], leased : SUBSET Tasks]
Passes == [running : {TRUE}, todo : SUBSET Tasks, load : [Nodes -> Nat],
           online : SUBSET Nodes, drained : SUBSET Nodes, pin : Pins, before : Befores]

(* The tables have their types, and the locals of a pass theirs.           *)
TypeInv ==
    /\ status \in [Tasks -> Status]
    /\ assigned \in [Tasks -> Owners]
    /\ leased \subseteq Tasks
    /\ drained \subseteq Nodes
    /\ pin \in Pins
    /\ since \in [Nodes -> 0..Cardinality(Nodes)]
    /\ pass = Idle \/ pass \in Passes

(* The tasks the pass goes through, those it has gone through, and the     *)
(* node each of them was handed to.                                        *)
Listed == Schedulable(pass.before.status, pass.before.leased)
Done == Listed \ pass.todo
Given(t) == IF status[t] = "running" THEN assigned[t] ELSE NoNode
PlacedOn(n) == {t \in Done : Given(t) = n}

----------------------------------------------------------------------------
(* Choosing a node *)

(* Every non-empty set of numbers has a least element. *)
LEMMA Least ==
  ASSUME NEW S \in SUBSET Nat, S # {}
  PROVE  \E x \in S : \A y \in S : x <= y
<1> DEFINE R == {p \in Nat \X Nat : p[1] < p[2]}
<1>1. IsWellFoundedOn(R, Nat)
  BY NatLessThanWellFounded DEF OpToRel
<1>2. \A x, y \in Nat : y < x => <<y, x>> \in R
  OBVIOUS
<1>3. \E x \in S : \A y \in S : <<y, x>> \notin R
  <2> HIDE DEF R
  <2> QED BY <1>1, WFMin
<1>4. PICK x \in S : \A y \in S : <<y, x>> \notin R
  BY <1>3
<1>5. \A y \in S : ~(y < x)
  <2> HIDE DEF R
  <2> QED BY <1>2, <1>4
<1> QED BY <1>5

(* Among any nodes one is preferred to all: the least loaded, of these the *)
(* longest unpicked, of these the first.                                   *)
LEMMA SomePreferred ==
  ASSUME NEW S \in SUBSET Nodes, S # {}, NEW load \in [Nodes -> Nat],
         since \in [Nodes -> 0..Cardinality(Nodes)]
  PROVE  \E n \in S : \A m \in S : Preferred(n, m, load)
<1>0. Cardinality(Nodes) \in Nat
  BY FS_CardinalityType
<1> DEFINE A == {n \in S : \A m \in S : load[n] <= load[m]}
           B == {n \in A : \A m \in A : since[n] >= since[m]}
<1>1. A # {}
  <2> DEFINE L == {load[n] : n \in S}
  <2>1. L \in SUBSET Nat /\ L # {}
    OBVIOUS
  <2>2. PICK x \in L : \A y \in L : x <= y
    <3> HIDE DEF L
    <3> QED BY <2>1, Least
  <2>3. PICK n \in S : load[n] = x
    OBVIOUS
  <2>4. n \in A
    BY <2>2, <2>3
  <2> QED BY <2>4
<1>2. B # {}
  <2> DEFINE L == {Cardinality(Nodes) - since[n] : n \in A}
  <2>1. L \in SUBSET Nat /\ L # {}
    BY <1>0, <1>1
  <2>2. PICK x \in L : \A y \in L : x <= y
    <3> HIDE DEF L
    <3> QED BY <2>1, Least
  <2>3. PICK n \in A : Cardinality(Nodes) - since[n] = x
    OBVIOUS
  <2>4. ASSUME NEW m \in A
        PROVE  since[n] >= since[m]
    <3>1. Cardinality(Nodes) - since[n] <= Cardinality(Nodes) - since[m]
      BY <2>2, <2>3
    <3>2. since[n] \in Nat /\ since[m] \in Nat
      BY <1>0
    <3> QED BY <1>0, <3>1, <3>2
  <2> QED BY <2>4
<1>3. \E n \in B : \A m \in B : NodeRank[n] <= NodeRank[m]
  <2> DEFINE L == {NodeRank[n] : n \in B}
  <2>1. L \in SUBSET Nat /\ L # {}
    BY <1>2
  <2>2. PICK x \in L : \A y \in L : x <= y
    <3> HIDE DEF L
    <3> QED BY <2>1, Least
  <2> QED BY <2>2
<1>4. PICK n \in B : \A m \in B : NodeRank[n] <= NodeRank[m]
  BY <1>3
<1>5. ASSUME NEW m \in S
      PROVE  Preferred(n, m, load)
  <2>1. n \in S /\ load[n] \in Nat /\ load[m] \in Nat /\ since[n] \in Nat /\ since[m] \in Nat
    BY <1>0
  <2>2. load[n] <= load[m]
    OBVIOUS
  <2>3. CASE load[n] < load[m]
    BY <2>3 DEF Preferred
  <2>4. CASE load[n] = load[m]
    <3>1. m \in A
      BY <2>4
    <3>2. since[n] >= since[m]
      BY <3>1
    <3>3. CASE since[n] > since[m]
      BY <2>4, <3>3 DEF Preferred
    <3>4. CASE since[n] = since[m]
      <4>1. m \in B
        BY <3>1, <3>4
      <4>2. NodeRank[n] <= NodeRank[m]
        BY <1>4, <4>1
      <4> QED BY <2>4, <3>4, <4>2 DEF Preferred
    <3> QED BY <2>1, <3>2, <3>3, <3>4
  <2> QED BY <2>1, <2>2, <2>3, <2>4
<1> QED BY <1>5

(* What the loop hands a task to is one of its candidates, if it has any.  *)
LEMMA ChosenFits ==
  ASSUME TypeInv, pass \in Passes, NEW t \in Tasks
  PROVE  LET C == Candidates(t, pass.online, pass.drained, pass.pin, pass.load)
         IN  IF C = {} THEN choose_pinned(t, pass) = NoNode ELSE choose_pinned(t, pass) \in C
<1> DEFINE room == WithRoom(t, pass.online, pass.drained, pass.load)
           pinned == PinOf(t, pass.pin)
           n == choose(room, pass.load)
<1>1. room \in SUBSET Nodes /\ pass.load \in [Nodes -> Nat] /\ since \in [Nodes -> 0..Cardinality(Nodes)]
  BY DEF TypeInv, Passes, WithRoom
<1>2. CASE pinned # NoNode
  BY <1>2 DEF choose_pinned, Candidates
<1>3. CASE pinned = NoNode /\ room = {}
  BY <1>3 DEF choose_pinned, choose, Candidates, LeastLoaded
<1>4. CASE pinned = NoNode /\ room # {}
  <2>1. \E k \in room : \A m \in room : Preferred(k, m, pass.load)
    <3> HIDE DEF room
    <3> QED BY <1>1, <1>4, SomePreferred
  <2>2. n \in room /\ \A m \in room : Preferred(n, m, pass.load)
    <3> HIDE DEF room
    <3> QED BY <1>4, <2>1 DEF choose
  <2>3. ASSUME NEW m \in room PROVE pass.load[n] <= pass.load[m]
    <3>1. pass.load[n] \in Nat /\ pass.load[m] \in Nat
      BY <1>1, <2>2
    <3>2. pass.load[n] < pass.load[m] \/ pass.load[n] = pass.load[m]
      BY <2>2 DEF Preferred
    <3> HIDE DEF n, room
    <3> QED BY <3>1, <3>2
  <2>4. n \in LeastLoaded(room, pass.load)
    BY <2>2, <2>3 DEF LeastLoaded
  <2>5. choose_pinned(t, pass) = n
    BY <1>4 DEF choose_pinned
  <2>6. Candidates(t, pass.online, pass.drained, pass.pin, pass.load) = LeastLoaded(room, pass.load)
    BY <1>4 DEF Candidates
  <2> QED BY <2>4, <2>5, <2>6
<1> QED BY <1>2, <1>3, <1>4

(* A task that is handed out goes to a node with room, to its lane's node  *)
(* if that has one, and otherwise to one of the least loaded; for one that *)
(* is left, every node it could have is full.                              *)
LEMMA ChosenRoom ==
  ASSUME TypeInv, pass \in Passes, NEW t \in Tasks, NEW n, n = choose_pinned(t, pass)
  PROVE  /\ n # NoNode =>
              /\ n \in pass.online /\ n \in Nodes
              /\ node_can_run(t, n, pass.drained)
              /\ ~node_at_capacity(n, pass.load[n])
              /\ PinOf(t, pass.pin) \in {NoNode, n}
              /\ PinOf(t, pass.pin) = NoNode =>
                   \A m \in WithRoom(t, pass.online, pass.drained, pass.load) : pass.load[n] <= pass.load[m]
         /\ n = NoNode => \A m \in pass.online :
              node_can_run(t, m, pass.drained) /\ PinOf(t, pass.pin) \in {NoNode, m}
                => node_at_capacity(m, pass.load[m])
<1> DEFINE room == WithRoom(t, pass.online, pass.drained, pass.load)
           C == Candidates(t, pass.online, pass.drained, pass.pin, pass.load)
<1>0. room \subseteq pass.online /\ pass.online \subseteq Nodes /\ NoNode \notin room
  BY DEF WithRoom, Passes
<1>1. IF C = {} THEN n = NoNode ELSE n \in C
  BY ChosenFits
<1>2. C \subseteq room
  BY DEF Candidates, LeastLoaded
<1>3. n # NoNode => n \in C /\ n \in room
  BY <1>1, <1>2
<1>4. ASSUME n # NoNode
      PROVE  /\ n \in pass.online /\ n \in Nodes
             /\ node_can_run(t, n, pass.drained)
             /\ ~node_at_capacity(n, pass.load[n])
  BY <1>0, <1>3, <1>4 DEF WithRoom
<1>5. ASSUME n # NoNode
      PROVE  PinOf(t, pass.pin) \in {NoNode, n}
  BY <1>3, <1>5 DEF Candidates
<1>6. ASSUME n # NoNode, PinOf(t, pass.pin) = NoNode, NEW m \in room
      PROVE  pass.load[n] <= pass.load[m]
  BY <1>3, <1>6 DEF Candidates, LeastLoaded
<1>7. ASSUME n = NoNode, NEW m \in pass.online, node_can_run(t, m, pass.drained),
             PinOf(t, pass.pin) \in {NoNode, m}
      PROVE  node_at_capacity(m, pass.load[m])
  <2>1. n \notin room
    BY <1>0, <1>7
  <2>2. C = {}
    BY <1>1, <1>2, <2>1
  <2>3. m # NoNode
    BY <1>0
  <2> SUFFICES ASSUME m \in room PROVE FALSE
    BY <1>7 DEF WithRoom
  <2>4. CASE PinOf(t, pass.pin) = m
    BY <2>2, <2>3, <2>4 DEF Candidates
  <2>5. CASE PinOf(t, pass.pin) = NoNode
    <3>1. choose_pinned(t, pass) = choose(room, pass.load)
      BY <2>5 DEF choose_pinned
    <3>2. room \in SUBSET Nodes /\ pass.load \in [Nodes -> Nat] /\ since \in [Nodes -> 0..Cardinality(Nodes)]
      BY <1>0 DEF TypeInv, Passes
    <3>3. choose(room, pass.load) \in room
      <4>1. \E k \in room : \A j \in room : Preferred(k, j, pass.load)
        <5> HIDE DEF room
        <5> QED BY <3>2, SomePreferred
      <4> HIDE DEF room
      <4> QED BY <4>1 DEF choose
    <3> QED BY <2>1, <3>1, <3>3
  <2> QED BY <1>7, <2>4, <2>5
<1> QED BY <1>4, <1>5, <1>6, <1>7

----------------------------------------------------------------------------
(* Types *)

(* Counts of nodes and of active tasks are numbers. *)
LEMMA Counts ==
  ASSUME TypeInv
  PROVE  /\ Cardinality(Nodes) \in Nat
         /\ \A n \in Nodes : /\ IsFiniteSet(ActiveOn(status, assigned, n))
                             /\ Cardinality(ActiveOn(status, assigned, n)) \in Nat
<1>1. ASSUME NEW n \in Nodes PROVE IsFiniteSet(ActiveOn(status, assigned, n))
  BY FS_Subset DEF ActiveOn
<1> QED BY <1>1, FS_CardinalityType

(* A pass that begins reads values of the right types. *)
LEMMA BeginType ==
  ASSUME TypeInv, BeginPass
  PROVE  TypeInv'
<1>1. [n \in Nodes |-> Cardinality(ActiveOn(status, assigned, n))] \in [Nodes -> Nat]
  BY Counts
<1>2. Schedulable(status, leased) \subseteq Tasks /\ Online \subseteq Nodes
  BY DEF Schedulable, Online
<1>3. pass' \in Passes
  BY <1>1, <1>2 DEF BeginPass, TypeInv, Passes, Befores
<1> QED BY <1>3 DEF BeginPass, TypeInv

(* A step of the loop: the next task, the choice made for it, and all that *)
(* changes with it.                                                        *)
Takes(t, n) ==
    /\ t \in pass.todo /\ IsNext(t, pass.todo) /\ n = choose_pinned(t, pass)
    /\ IF n = NoNode
       THEN /\ UNCHANGED <<status, assigned, leased, since>>
            /\ pass' = [pass EXCEPT !.todo = @ \ {t}]
       ELSE /\ status' = [status EXCEPT ![t] = "running"]
            /\ assigned' = [assigned EXCEPT ![t] = n]
            /\ leased' = leased \cup {t}
            /\ since' = mark_picked(n)
            /\ pass' = [pass EXCEPT !.todo = @ \ {t}, !.load[n] = @ + 1]
    /\ UNCHANGED <<health, drained, pin>>

(* Every step of a pass takes up one task. *)
LEMMA StepTakes ==
  ASSUME PassStep
  PROVE  \E t \in pass.todo : Takes(t, choose_pinned(t, pass))
BY DEF PassStep, Takes, Skip

(* In a pass something is read; without one nothing is. *)
LEMMA RunningPass ==
  ASSUME TypeInv
  PROVE  (pass.running <=> pass \in Passes) /\ (~pass.running <=> pass = Idle)
<1>1. pass \in Passes => pass.running = TRUE
  BY DEF Passes
<1>2. pass = Idle => pass.running = FALSE
  BY DEF Idle
<1> QED BY <1>1, <1>2 DEF TypeInv

(* The locals of the pass after a step. *)
LEMMA TakesPass ==
  ASSUME TypeInv, pass \in Passes, NEW t \in Tasks, NEW n, Takes(t, n)
  PROVE  /\ pass' \in Passes
         /\ pass'.todo = pass.todo \ {t}
         /\ pass'.online = pass.online /\ pass'.drained = pass.drained
         /\ pass'.pin = pass.pin /\ pass'.before = pass.before
         /\ n = NoNode \/ n \in Nodes
         /\ \A m \in Nodes : pass'.load[m] = IF m = n THEN pass.load[m] + 1 ELSE pass.load[m]
<1>1. n = NoNode \/ n \in Nodes
  BY ChosenRoom DEF Takes
<1>2. CASE n = NoNode
  <2>1. pass' = [pass EXCEPT !.todo = pass.todo \ {t}]
    BY <1>2 DEF Takes
  <2>2. pass' \in Passes /\ pass'.todo = pass.todo \ {t} /\ pass'.load = pass.load
    BY <2>1 DEF Passes
  <2>3. /\ pass'.online = pass.online /\ pass'.drained = pass.drained
        /\ pass'.pin = pass.pin /\ pass'.before = pass.before
    BY <2>1 DEF Passes
  <2>4. \A m \in Nodes : m # n
    BY <1>2
  <2> QED BY <1>2, <2>2, <2>3, <2>4
<1>3. CASE n # NoNode
  <2>1. n \in Nodes
    BY <1>1, <1>3
  <2>2. pass' = [pass EXCEPT !.todo = pass.todo \ {t},
                             !.load = [pass.load EXCEPT ![n] = pass.load[n] + 1]]
    BY <1>3 DEF Takes, Passes
  <2>3. [pass.load EXCEPT ![n] = pass.load[n] + 1] \in [Nodes -> Nat]
    BY <2>1 DEF Passes
  <2> QED BY <2>1, <2>2, <2>3 DEF Passes
<1> QED BY <1>2, <1>3

(* The tables after a step. *)
LEMMA TakesTables ==
  ASSUME TypeInv, pass \in Passes, NEW t \in Tasks, NEW n, Takes(t, n)
  PROVE  /\ status' \in [Tasks -> Status] /\ assigned' \in [Tasks -> Owners]
         /\ \A u \in Tasks \ {t} : status'[u] = status[u] /\ assigned'[u] = assigned[u]
         /\ n = NoNode => status'[t] = status[t] /\ assigned'[t] = assigned[t]
         /\ n # NoNode => status'[t] = "running" /\ assigned'[t] = n
BY ChosenRoom DEF Takes, TypeInv, Status, Owners

(* Every step keeps the types. *)
LEMMA TakesType ==
  ASSUME TypeInv, pass \in Passes, NEW t \in Tasks, NEW n, Takes(t, n)
  PROVE  TypeInv'
<1>1. since' \in [Nodes -> 0..Cardinality(Nodes)]
  <2>1. /\ Cardinality(Nodes) \in Nat
        /\ since \in [Nodes -> 0..Cardinality(Nodes)]
        /\ n # NoNode => n \in Nodes
    BY Counts, ChosenRoom DEF Takes, TypeInv
  <2>2. n \in Nodes => mark_picked(n) \in [Nodes -> 0..Cardinality(Nodes)]
    BY <2>1 DEF mark_picked
  <2> QED BY <2>1, <2>2 DEF Takes
<1>2. leased' \subseteq Tasks /\ drained' \subseteq Nodes /\ pin' \in Pins
  BY DEF Takes, TypeInv
<1>3. pass' \in Passes
  BY TakesPass
<1> QED BY <1>1, <1>2, <1>3, TakesTables DEF TypeInv

(* Between passes a task becomes ready or done, never active. *)
LEMMA EventEffect ==
  ASSUME TypeInv, TaskEvent
  PROVE  /\ status' \in [Tasks -> Status] /\ assigned' \in [Tasks -> Owners] /\ leased' \subseteq Tasks
         /\ \A t \in Tasks : status'[t] \in ACTIVE_TASK_STATUSES =>
                               status'[t] = status[t] /\ assigned'[t] = assigned[t]
         /\ UNCHANGED <<health, drained, pin, since, pass>>
<1>0. PICK t \in Tasks : Submit(t) \/ SetStatus(t) \/ Requeue(t) \/ EndLease(t)
  BY DEF TaskEvent
<1>1. CASE Submit(t)
  BY <1>1 DEF Submit, TaskEvent, TypeInv, Status, ACTIVE_TASK_STATUSES
<1>2. CASE SetStatus(t)
  BY <1>2 DEF SetStatus, TaskEvent, TypeInv, Status, ACTIVE_TASK_STATUSES
<1>3. CASE Requeue(t)
  BY <1>3 DEF Requeue, TaskEvent, TypeInv, Status, ACTIVE_TASK_STATUSES, Owners
<1>4. CASE EndLease(t)
  BY <1>4 DEF EndLease, TaskEvent, TypeInv
<1> QED BY <1>0, <1>1, <1>2, <1>3, <1>4

(* So does every action of the module. *)
LEMMA NextType ==
  ASSUME TypeInv, [Next]_vars
  PROVE  TypeInv'
<1>1. CASE BeginPass
  BY <1>1, BeginType
<1>2. CASE PassStep
  <2>1. pass \in Passes
    BY <1>2, RunningPass DEF PassStep
  <2>2. PICK t \in pass.todo : Takes(t, choose_pinned(t, pass))
    BY <1>2, StepTakes
  <2>3. t \in Tasks
    BY <2>1 DEF Passes
  <2> QED BY <2>1, <2>2, <2>3, TakesType
<1>3. CASE EndPass
  BY <1>3 DEF EndPass, TypeInv
<1>4. CASE TaskEvent
  BY <1>4, EventEffect DEF TypeInv
<1>5. CASE SetNodeStatus
  BY <1>5 DEF SetNodeStatus, TypeInv
<1>6. CASE ToggleDrain
  BY <1>6 DEF ToggleDrain, TypeInv
<1>7. CASE RecordLane
  BY <1>7 DEF RecordLane, TypeInv, Pins, Owners
<1>8. CASE UNCHANGED vars
  BY <1>8 DEF vars, TypeInv
<1> QED BY <1>1, <1>2, <1>3, <1>4, <1>5, <1>6, <1>7, <1>8 DEF Next

----------------------------------------------------------------------------
(* The invariant of the loop *)

(* The tasks gone through come before those that wait.                     *)
InOrder ==
    /\ pass.todo \subseteq Listed
    /\ \A t \in pass.todo : status[t] = "ready"
    /\ \A t \in Done, u \in pass.todo : SchedBefore(t, u)

(* The loads count the active tasks, which are those that were active when *)
(* the pass began and those it has placed since.                           *)
LoadsCount == \A n \in Nodes :
    /\ pass.load[n] = Cardinality(ActiveOn(status, assigned, n))
    /\ pass.load[n] = Cardinality(ActiveOn(pass.before.status, pass.before.assigned, n))
                      + Cardinality(PlacedOn(n))

(* What has become of the tasks gone through is what a plan allows.        *)
SoFarFits == \A t \in Done :
    /\ Given(t) \in Owners
    /\ Fits(Outcome, t, pass.before.status, pass.before.assigned,
            pass.online, pass.drained, pass.pin)

(* A task was left only if every node it could have is full,               *)
Refused(u) == \A n \in pass.online :
    node_can_run(u, n, pass.drained) /\ PinOf(u, pass.pin) \in {NoNode, n}
      => node_at_capacity(n, pass.load[n])

LeftOnlyFull == \A u \in Done : Given(u) = NoNode => Refused(u)

(* none took a slot that one ahead of it could have had,                   *)
NoJump == \A t, u \in Done :
    SchedBefore(u, t) /\ Given(t) # NoNode /\ Given(u) = NoNode
      => \/ ~node_can_run(u, Given(t), pass.drained)
         \/ PinOf(u, pass.pin) \notin {NoNode, Given(t)}

(* and no node got more than one above another that could have had it.     *)
Spread == \A n, m \in pass.online :
    /\ PlacedOn(n) # {}
    /\ \A t \in PlacedOn(n) : PinOf(t, pass.pin) = NoNode /\ node_can_run(t, m, pass.drained)
    /\ ~node_at_capacity(m, pass.load[m])
    => pass.load[n] <= pass.load[m] + 1

LoopInv == pass.running =>
    InOrder /\ LoadsCount /\ SoFarFits /\ LeftOnlyFull /\ NoJump /\ Spread

(* The order of the pass is a strict order. *)
LEMMA StrictOrder ==
  ASSUME NEW t \in Tasks, NEW u \in Tasks
  PROVE  ~SchedBefore(t, t) /\ ~(SchedBefore(t, u) /\ SchedBefore(u, t))
BY DEF SchedBefore

(* When a pass begins nothing has been gone through. *)
LEMMA BeginLoop ==
  ASSUME TypeInv, BeginPass
  PROVE  LoopInv'
<1>1. Listed' = Schedulable(status, leased) /\ pass'.todo = Schedulable(status, leased)
  BY DEF BeginPass, Listed
<1>2. Done' = {} /\ \A n : PlacedOn(n)' = {}
  BY <1>1 DEF Done, PlacedOn
<1>3. InOrder'
  BY <1>1, <1>2 DEF InOrder, Schedulable, BeginPass
<1>4. LoadsCount'
  <2> SUFFICES ASSUME NEW n \in Nodes
               PROVE  /\ pass'.load[n] = Cardinality(ActiveOn(status, assigned, n)')
                      /\ pass'.load[n] = Cardinality(ActiveOn(pass.before.status, pass.before.assigned, n)')
                                         + Cardinality(PlacedOn(n)')
    BY DEF LoadsCount
  <2>1. pass'.load[n] = Cardinality(ActiveOn(status, assigned, n))
    BY DEF BeginPass
  <2>2. ActiveOn(status, assigned, n)' = ActiveOn(status, assigned, n)
    BY DEF BeginPass, ActiveOn
  <2>3. ActiveOn(pass.before.status, pass.before.assigned, n)' = ActiveOn(status, assigned, n)
    BY DEF BeginPass, ActiveOn
  <2>4. Cardinality(PlacedOn(n)') = 0
    BY <1>2, FS_EmptySet
  <2>5. Cardinality(ActiveOn(status, assigned, n)) \in Nat
    BY Counts
  <2> QED BY <2>1, <2>2, <2>3, <2>4, <2>5
<1>5. SoFarFits' /\ LeftOnlyFull' /\ NoJump' /\ Spread'
  <2>1. SoFarFits' /\ LeftOnlyFull' /\ NoJump'
    BY <1>2 DEF SoFarFits, LeftOnlyFull, NoJump
  <2>2. Spread'
    <3>1. \A k \in pass'.online : PlacedOn(k)' = {}
      BY <1>2
    <3> QED BY <3>1, Zenon DEF Spread
  <2> QED BY <2>1, <2>2
<1> QED BY <1>3, <1>4, <1>5 DEF LoopInv

(* A step goes through one more task, the first that waits, and says what  *)
(* becomes of it; the rest stays as it was.                                *)
LEMMA TakesDone ==
  ASSUME TypeInv, pass \in Passes, InOrder, NEW t \in Tasks, NEW n, Takes(t, n)
  PROVE  /\ Listed' = Listed /\ Listed \subseteq Tasks
         /\ Done' = Done \cup {t} /\ t \notin Done /\ t \in Listed
         /\ Given(t)' = n /\ \A u \in Tasks \ {t} : Given(u)' = Given(u)
         /\ \A u \in Done : SchedBefore(u, t)
         /\ \A u \in pass.todo \ {t} : SchedBefore(t, u)
<1>1. Listed' = Listed
  BY TakesPass DEF Listed
<1>2. Listed \subseteq Tasks
  BY DEF Listed, Schedulable
<1>3. t \in pass.todo /\ pass'.todo = pass.todo \ {t} /\ pass.todo \subseteq Listed
  BY TakesPass DEF Takes, InOrder
<1>4. Done' = Done \cup {t} /\ t \notin Done /\ t \in Listed
  BY <1>1, <1>3 DEF Done
<1>5. status[t] = "ready"
  BY <1>3 DEF InOrder
<1>6. Given(t)' = n
  BY <1>5, TakesTables DEF Given
<1>7. \A u \in Tasks \ {t} : Given(u)' = Given(u)
  BY TakesTables DEF Given
<1>8. \A u \in Done : SchedBefore(u, t)
  BY <1>3 DEF InOrder
<1>9. \A u \in pass.todo \ {t} : SchedBefore(t, u)
  BY DEF Takes, IsNext
<1> QED BY <1>1, <1>2, <1>4, <1>6, <1>7, <1>8, <1>9

(* The step takes the first task that waits, so the order stays. *)
LEMMA TakesInOrder ==
  ASSUME TypeInv, pass \in Passes, InOrder, NEW t \in Tasks, NEW n, Takes(t, n)
  PROVE  InOrder'
<1>1. pass'.todo = pass.todo \ {t} /\ pass.todo \subseteq Tasks
  BY TakesPass DEF Passes
<1>2. pass'.todo \subseteq Listed'
  BY <1>1, TakesDone DEF InOrder
<1>3. \A u \in pass'.todo : status'[u] = "ready"
  BY <1>1, TakesTables DEF InOrder
<1>4. \A u \in Done', v \in pass'.todo : SchedBefore(u, v)
  BY <1>1, TakesDone DEF InOrder
<1> QED BY <1>2, <1>3, <1>4 DEF InOrder

(* The sets that are counted gain the task, on its node only. *)
LEMMA TakesLoads ==
  ASSUME TypeInv, pass \in Passes, InOrder, LoadsCount, NEW t \in Tasks, NEW n, Takes(t, n)
  PROVE  LoadsCount'
<1> SUFFICES ASSUME NEW m \in Nodes
             PROVE  /\ pass'.load[m] = Cardinality(ActiveOn(status, assigned, m)')
                    /\ pass'.load[m] = Cardinality(ActiveOn(pass.before.status, pass.before.assigned, m)')
                                       + Cardinality(PlacedOn(m)')
  BY DEF LoadsCount
<1>0. status[t] = "ready" /\ t \notin Done
  BY TakesDone DEF InOrder, Takes
<1>1. ActiveOn(pass.before.status, pass.before.assigned, m)' = ActiveOn(pass.before.status, pass.before.assigned, m)
  BY TakesPass DEF ActiveOn
<1>2. IsFiniteSet(PlacedOn(m)) /\ IsFiniteSet(ActiveOn(status, assigned, m))
  <2>1. Done \subseteq Tasks
    BY DEF Done, Listed, Schedulable
  <2> QED BY <2>1, FS_Subset DEF PlacedOn, ActiveOn
<1>3. IsFiniteSet(ActiveOn(pass.before.status, pass.before.assigned, m))
  BY FS_Subset DEF ActiveOn
<1>4. t \notin PlacedOn(m) /\ t \notin ActiveOn(status, assigned, m)
  BY <1>0 DEF PlacedOn, ActiveOn, ACTIVE_TASK_STATUSES
<1>5. /\ pass.load[m] = Cardinality(ActiveOn(status, assigned, m))
      /\ pass.load[m] = Cardinality(ActiveOn(pass.before.status, pass.before.assigned, m))
                        + Cardinality(PlacedOn(m))
  BY DEF LoadsCount
<1>6. /\ Cardinality(ActiveOn(pass.before.status, pass.before.assigned, m)) \in Nat
      /\ Cardinality(PlacedOn(m)) \in Nat
  BY <1>2, <1>3, FS_CardinalityType
<1>7. CASE m = n
  <2>1. ActiveOn(status, assigned, m)' = ActiveOn(status, assigned, m) \cup {t}
    BY <1>7, TakesTables DEF ActiveOn, ACTIVE_TASK_STATUSES
  <2>2. PlacedOn(m)' = PlacedOn(m) \cup {t}
    BY <1>7, TakesDone DEF PlacedOn, Done
  <2>3. Cardinality(ActiveOn(status, assigned, m)') = Cardinality(ActiveOn(status, assigned, m)) + 1
    BY <1>2, <1>4, <2>1, FS_AddElement
  <2>4. Cardinality(PlacedOn(m)') = Cardinality(PlacedOn(m)) + 1
    BY <1>2, <1>4, <2>2, FS_AddElement
  <2>5. pass'.load[m] = pass.load[m] + 1
    BY <1>7, TakesPass
  <2>6. pass'.load[m] = Cardinality(ActiveOn(status, assigned, m)')
    BY <1>5, <2>3, <2>5
  <2>7. pass'.load[m] = Cardinality(ActiveOn(pass.before.status, pass.before.assigned, m))
                        + Cardinality(PlacedOn(m)')
    BY <1>5, <1>6, <2>4, <2>5
  <2> QED BY <1>1, <2>6, <2>7
<1>8. CASE m # n
  <2>1. ActiveOn(status, assigned, m)' = ActiveOn(status, assigned, m)
    BY <1>0, <1>8, TakesTables DEF ActiveOn, ACTIVE_TASK_STATUSES
  <2>2. PlacedOn(m)' = PlacedOn(m)
    BY <1>8, TakesDone DEF PlacedOn, Done
  <2>3. pass'.load[m] = pass.load[m]
    BY <1>8, TakesPass
  <2> QED BY <1>1, <1>5, <2>1, <2>2, <2>3
<1> QED BY <1>7, <1>8

(* The plan so far, at each task. *)
LEMMA OutcomeAt ==
  /\ DOMAIN Outcome = Listed
  /\ \A t \in Listed : Outcome[t] = Given(t)
BY DEF Outcome, Listed, Given

(* The loads a task met before the step are those it met after it, and the *)
(* task of the step meets the loads of the pass.                           *)
LEMMA TakesFits ==
  ASSUME TypeInv, pass \in Passes, InOrder, LoadsCount, SoFarFits,
         NEW t \in Tasks, NEW n, Takes(t, n)
  PROVE  SoFarFits'
<1> DEFINE Met(u) == LoadBefore(u, Outcome, pass.before.status, pass.before.assigned)
           Ahead(u, m) == {v \in Listed : SchedBefore(v, u) /\ Outcome[v] = m}
<1>0. /\ Listed' = Listed /\ Listed \subseteq Tasks
      /\ Done' = Done \cup {t} /\ t \notin Done /\ t \in Listed
      /\ Given(t)' = n /\ \A u \in Tasks \ {t} : Given(u)' = Given(u)
      /\ \A u \in Done : SchedBefore(u, t)
      /\ \A u \in pass.todo \ {t} : SchedBefore(t, u)
      /\ pass.todo \subseteq Listed /\ Done = Listed \ pass.todo
  BY TakesDone DEF Done, InOrder
<1>1. \A v \in Listed : Outcome[v] = Given(v) /\ Outcome'[v] = Given(v)'
  BY <1>0, OutcomeAt DEF Outcome, Listed, Given
<1>2. DOMAIN Outcome = Listed /\ DOMAIN Outcome' = Listed
  BY <1>0 DEF Outcome, Listed
<1>3. \A u : Met(u) = [m \in Nodes |->
                 Cardinality(ActiveOn(pass.before.status, pass.before.assigned, m)) + Cardinality(Ahead(u, m))]
  BY <1>2 DEF LoadBefore
<1>4. \A u : Met(u)' = [m \in Nodes |->
                 Cardinality(ActiveOn(pass.before.status, pass.before.assigned, m)) + Cardinality(Ahead(u, m)')]
  <2>1. pass'.before = pass.before
    BY TakesPass
  <2>2. \A m : ActiveOn(pass.before.status, pass.before.assigned, m)'
                 = ActiveOn(pass.before.status, pass.before.assigned, m)
    BY <2>1 DEF ActiveOn
  <2> QED BY <1>0, <1>2, <2>1, <2>2 DEF LoadBefore
<1>5. ASSUME NEW u \in Done, NEW m
      PROVE  Ahead(u, m)' = Ahead(u, m)
  <2>1. ~SchedBefore(t, u)
    BY <1>0, StrictOrder
  <2>2. \A v \in Listed : SchedBefore(v, u) => Outcome'[v] = Outcome[v]
    BY <1>0, <1>1, <2>1
  <2> QED BY <1>0, <2>2
<1>6. ASSUME NEW m \in Nodes
      PROVE  Ahead(t, m)' = PlacedOn(m)
  <2>1. \A v \in Listed : SchedBefore(v, t) <=> v \in Done
    BY <1>0, StrictOrder
  <2>2. \A v \in Done : Outcome'[v] = Given(v)
    BY <1>0, <1>1
  <2> QED BY <1>0, <2>1, <2>2 DEF PlacedOn
<1>7. ASSUME NEW u \in Done
      PROVE  Given(u)' \in Owners /\ Fits(Outcome, u, pass.before.status, pass.before.assigned,
                                          pass.online, pass.drained, pass.pin)'
  <2>1. Met(u)' = Met(u)
    <3> HIDE DEF Ahead, Met
    <3> QED BY <1>3, <1>4, <1>5
  <2>2. Outcome'[u] = Outcome[u] /\ Given(u)' = Given(u)
    BY <1>0, <1>1
  <2>3. Given(u) \in Owners /\ Fits(Outcome, u, pass.before.status, pass.before.assigned,
                                    pass.online, pass.drained, pass.pin)
    BY DEF SoFarFits
  <2>4. /\ pass'.online = pass.online /\ pass'.drained = pass.drained
        /\ pass'.pin = pass.pin /\ pass'.before = pass.before
    BY TakesPass
  <2> QED BY <2>1, <2>2, <2>3, <2>4 DEF Fits, Candidates
<1>8. /\ Given(t)' \in Owners
      /\ Fits(Outcome, t, pass.before.status, pass.before.assigned,
              pass.online, pass.drained, pass.pin)'
  <2>1. Met(t)' = pass.load
    <3>1. Met(t)' = [m \in Nodes |->
                 Cardinality(ActiveOn(pass.before.status, pass.before.assigned, m)) + Cardinality(PlacedOn(m))]
      <4> HIDE DEF Ahead, Met
      <4> QED BY <1>4, <1>6
    <3>2. pass.load \in [Nodes -> Nat]
      BY DEF Passes
    <3> QED BY <3>1, <3>2 DEF LoadsCount
  <2>2. Outcome'[t] = n /\ n = choose_pinned(t, pass)
    BY <1>0, <1>1 DEF Takes
  <2>3. LET C == Candidates(t, pass.online, pass.drained, pass.pin, pass.load)
        IN  IF C = {} THEN n = NoNode ELSE n \in C
    BY <2>2, ChosenFits
  <2>4. /\ pass'.online = pass.online /\ pass'.drained = pass.drained /\ pass'.pin = pass.pin
        /\ n \in Owners
    BY TakesPass DEF Owners
  <2>5. Candidates(t, pass.online, pass.drained, pass.pin, Met(t))'
          = Candidates(t, pass.online, pass.drained, pass.pin, pass.load)
    BY <2>1, <2>4 DEF Candidates
  <2> QED BY <1>0, <2>2, <2>3, <2>4, <2>5 DEF Fits
<1> QED BY <1>0, <1>7, <1>8 DEF SoFarFits

(* Loads only grow, so what was full stays full. *)
LEMMA TakesFull ==
  ASSUME TypeInv, pass \in Passes, NEW t \in Tasks, NEW n, Takes(t, n)
  PROVE  /\ \A m \in Nodes : node_at_capacity(m, pass.load[m]) => node_at_capacity(m, pass'.load[m])
         /\ \A u \in Tasks : Refused(u) => Refused(u)'
<1>1. ASSUME NEW m \in Nodes, node_at_capacity(m, pass.load[m])
      PROVE  node_at_capacity(m, pass'.load[m])
  <2>1. /\ pass.load[m] \in Nat /\ MaxConcurrent[m] \in Nat
        /\ pass'.load[m] = pass.load[m] + 1 \/ pass'.load[m] = pass.load[m]
    BY TakesPass DEF Passes
  <2>2. MaxConcurrent[m] > 0 /\ pass.load[m] >= MaxConcurrent[m]
    BY <1>1 DEF node_at_capacity
  <2>3. pass'.load[m] >= MaxConcurrent[m]
    BY <2>1, <2>2
  <2> QED BY <2>2, <2>3 DEF node_at_capacity
<1>2. ASSUME NEW u \in Tasks, Refused(u)
      PROVE  Refused(u)'
  <2>1. /\ pass'.online = pass.online /\ pass'.drained = pass.drained /\ pass'.pin = pass.pin
        /\ pass.online \subseteq Nodes
    BY TakesPass DEF Passes
  <2>2. \A m \in pass.online : node_at_capacity(m, pass.load[m]) => node_at_capacity(m, pass'.load[m])
    BY <1>1, <2>1
  <2>3. \A m \in pass.online :
          node_can_run(u, m, pass.drained) /\ PinOf(u, pass.pin) \in {NoNode, m}
            => node_at_capacity(m, pass.load[m])
    BY <1>2 DEF Refused
  <2> QED BY <2>1, <2>2, <2>3 DEF Refused
<1> QED BY <1>1, <1>2

(* A task is left only when every node it could have is full. *)
LEMMA TakesLeft ==
  ASSUME TypeInv, pass \in Passes, InOrder, LeftOnlyFull, NEW t \in Tasks, NEW n, Takes(t, n)
  PROVE  LeftOnlyFull'
<1>0. Done' = Done \cup {t} /\ Done \subseteq Tasks \ {t}
  BY TakesDone DEF Done
<1>1. ASSUME NEW u \in Done, Given(u)' = NoNode
      PROVE  Refused(u)'
  BY <1>0, <1>1, TakesDone, TakesFull DEF LeftOnlyFull
<1>2. ASSUME Given(t)' = NoNode
      PROVE  Refused(t)'
  <2>1. n = NoNode /\ n = choose_pinned(t, pass)
    BY <1>2, TakesDone DEF Takes
  <2>2. Refused(t)
    BY <2>1, ChosenRoom DEF Refused
  <2> QED BY <2>2, TakesFull
<1> QED BY <1>0, <1>1, <1>2 DEF LeftOnlyFull

(* The task of the step takes a slot none of those left could have had.    *)
LEMMA TakesNoJump ==
  ASSUME TypeInv, pass \in Passes, InOrder, LeftOnlyFull, NoJump, NEW t \in Tasks, NEW n, Takes(t, n)
  PROVE  NoJump'
<1>0. /\ Done' = Done \cup {t} /\ Done \subseteq Tasks \ {t}
      /\ Given(t)' = n /\ \A u \in Done : Given(u)' = Given(u)
      /\ \A u \in Done : SchedBefore(u, t)
  BY TakesDone DEF Done
<1>1. pass'.drained = pass.drained /\ pass'.pin = pass.pin
  BY TakesPass
<1> DEFINE Skipped(v, u, g) == ~node_can_run(u, g, pass.drained) \/ PinOf(u, pass.pin) \notin {NoNode, g}
<1>2. ASSUME NEW v \in Done, NEW u \in Done, SchedBefore(u, v), Given(v) # NoNode, Given(u) = NoNode
      PROVE  Skipped(v, u, Given(v))
  BY <1>2 DEF NoJump
<1>3. ASSUME NEW u \in Done, n # NoNode, Given(u) = NoNode
      PROVE  Skipped(t, u, n)
  <2>1. n \in pass.online /\ ~node_at_capacity(n, pass.load[n])
    BY <1>3, ChosenRoom DEF Takes
  <2>2. Refused(u)
    BY <1>3 DEF LeftOnlyFull
  <2> QED BY <2>1, <2>2 DEF Refused
<1>4. \A u \in Done : ~SchedBefore(t, u)
  BY <1>0, StrictOrder
<1>5. ~SchedBefore(t, t)
  BY StrictOrder
<1>6. ASSUME NEW v \in Done', NEW u \in Done', SchedBefore(u, v), Given(v)' # NoNode, Given(u)' = NoNode
      PROVE  Skipped(v, u, Given(v)')
  <2>1. CASE v \in Done /\ u \in Done
    BY <1>0, <1>2, <1>6, <2>1
  <2>2. CASE v = t /\ u \in Done
    BY <1>0, <1>3, <1>6, <2>2
  <2>3. u # t
    BY <1>0, <1>4, <1>5, <1>6
  <2> QED BY <1>0, <2>1, <2>2, <2>3
<1> QED BY <1>1, <1>6 DEF NoJump

(* A node that gets a task had no more than any other that could have had  *)
(* it, and a node that fills up only helps.                                *)
LEMMA TakesSpread ==
  ASSUME TypeInv, pass \in Passes, InOrder, Spread, NEW t \in Tasks, NEW n, Takes(t, n)
  PROVE  Spread'
<1>0. /\ Done' = Done \cup {t} /\ Done \subseteq Tasks \ {t}
      /\ Given(t)' = n /\ \A u \in Done : Given(u)' = Given(u)
  BY TakesDone DEF Done
<1>1. /\ pass'.online = pass.online /\ pass'.drained = pass.drained /\ pass'.pin = pass.pin
      /\ pass.online \subseteq Nodes
  BY TakesPass DEF Passes
<1>2. \A m \in Nodes : /\ pass.load[m] \in Nat
                       /\ pass'.load[m] = IF m = n THEN pass.load[m] + 1 ELSE pass.load[m]
  <2>1. pass.load \in [Nodes -> Nat]
    BY DEF Passes
  <2> QED BY <2>1, TakesPass
<1> SUFFICES ASSUME NEW k \in pass.online, NEW m \in pass.online, PlacedOn(k)' # {},
                    \A u \in PlacedOn(k)' : PinOf(u, pass.pin) = NoNode /\ node_can_run(u, m, pass.drained),
                    ~node_at_capacity(m, pass'.load[m])
             PROVE  pass'.load[k] <= pass'.load[m] + 1
  BY <1>1, Zenon DEF Spread
<1>3. k \in Nodes /\ m \in Nodes
  BY <1>1
<1>4. ~node_at_capacity(m, pass.load[m])
  BY <1>3, TakesFull
<1>5. CASE k = n
  <2>1. t \in PlacedOn(k)' /\ n # NoNode
    BY <1>0, <1>3, <1>5 DEF PlacedOn
  <2>2. PinOf(t, pass.pin) = NoNode /\ node_can_run(t, m, pass.drained)
    BY <2>1
  <2>3. m \in WithRoom(t, pass.online, pass.drained, pass.load)
    BY <1>4, <2>2 DEF WithRoom
  <2>4. pass.load[n] <= pass.load[m]
    BY <2>1, <2>2, <2>3, ChosenRoom DEF Takes
  <2> QED BY <1>2, <1>3, <1>5, <2>4
<1>6. CASE k # n
  <2>1. PlacedOn(k)' = PlacedOn(k)
    BY <1>0, <1>6 DEF PlacedOn
  <2>2. pass.load[k] <= pass.load[m] + 1
    BY <1>4, <2>1 DEF Spread
  <2> QED BY <1>2, <1>3, <1>6, <2>2
<1> QED BY <1>5, <1>6

----------------------------------------------------------------------------
(* The theorems *)

Inv == TypeInv /\ LoopInv /\ CapacityRespected

(* When the set of active tasks of a node does not grow, nor does its load. *)
LEMMA CapacityStays ==
  ASSUME TypeInv, CapacityRespected,
         \A t \in Tasks : status'[t] \in ACTIVE_TASK_STATUSES =>
                            status'[t] = status[t] /\ assigned'[t] = assigned[t]
  PROVE  CapacityRespected'
<1> SUFFICES ASSUME NEW n \in Nodes, MaxConcurrent[n] > 0
             PROVE  Cardinality(ActiveOn(status, assigned, n)') <= MaxConcurrent[n]
  BY DEF CapacityRespected
<1>1. ActiveOn(status, assigned, n)' \subseteq ActiveOn(status, assigned, n)
  BY DEF ActiveOn
<1>2. IsFiniteSet(ActiveOn(status, assigned, n)) /\ Cardinality(ActiveOn(status, assigned, n)) \in Nat
  BY Counts
<1>3. /\ Cardinality(ActiveOn(status, assigned, n)') <= Cardinality(ActiveOn(status, assigned, n))
      /\ Cardinality(ActiveOn(status, assigned, n)') \in Nat
  BY <1>1, <1>2, FS_Subset, FS_CardinalityType
<1>4. Cardinality(ActiveOn(status, assigned, n)) <= MaxConcurrent[n] /\ MaxConcurrent[n] \in Nat
  BY DEF CapacityRespected
<1> QED BY <1>2, <1>3, <1>4

(* A step of the loop keeps the invariant. *)
LEMMA TakesInv ==
  ASSUME Inv, pass \in Passes, NEW t \in Tasks, NEW n, Takes(t, n)
  PROVE  Inv'
<1>1. InOrder /\ LoadsCount /\ SoFarFits /\ LeftOnlyFull /\ NoJump /\ Spread
  BY RunningPass DEF Inv, LoopInv
<1>2. TypeInv'
  BY TakesType DEF Inv
<1>3. LoadsCount'
  BY <1>1, TakesLoads DEF Inv
<1>4. LoopInv'
  BY <1>1, <1>3, TakesInOrder, TakesFits, TakesLeft, TakesNoJump, TakesSpread DEF Inv, LoopInv
<1>5. CapacityRespected'
  <2> SUFFICES ASSUME NEW m \in Nodes, MaxConcurrent[m] > 0
               PROVE  pass'.load[m] <= MaxConcurrent[m]
    BY <1>3 DEF CapacityRespected, LoadsCount
  <2>1. pass.load[m] <= MaxConcurrent[m]
    BY <1>1 DEF Inv, CapacityRespected, LoadsCount
  <2>2. pass.load[m] \in Nat /\ MaxConcurrent[m] \in Nat
    BY DEF Passes
  <2>3. m = n => ~node_at_capacity(n, pass.load[n])
    BY ChosenRoom DEF Inv, Takes
  <2>4. pass'.load[m] = IF m = n THEN pass.load[m] + 1 ELSE pass.load[m]
    BY TakesPass DEF Inv
  <2> QED BY <2>1, <2>2, <2>3, <2>4 DEF node_at_capacity
<1> QED BY <1>2, <1>4, <1>5 DEF Inv

(* What no step of the pass touches. *)
LEMMA RestInv ==
  ASSUME Inv, [Next]_vars, ~PassStep
  PROVE  Inv'
<1>1. TypeInv'
  BY NextType DEF Inv
<1>2. CASE BeginPass
  <2>1. CapacityRespected'
    BY <1>2 DEF Inv, BeginPass, CapacityRespected, ActiveOn
  <2> QED BY <1>1, <1>2, <2>1, BeginLoop DEF Inv
<1>3. CASE EndPass
  <2>1. CapacityRespected'
    BY <1>3 DEF Inv, EndPass, CapacityRespected, ActiveOn
  <2>2. LoopInv'
    BY <1>3 DEF EndPass, LoopInv, Idle
  <2> QED BY <1>1, <2>1, <2>2 DEF Inv
<1>4. CASE TaskEvent
  <2>1. CapacityRespected'
    BY <1>4, EventEffect, CapacityStays DEF Inv
  <2>2. ~pass'.running
    BY <1>4, EventEffect DEF TaskEvent, Inv
  <2> QED BY <1>1, <2>1, <2>2 DEF Inv, LoopInv
<1>5. CASE SetNodeStatus \/ ToggleDrain \/ RecordLane
  <2>1. CapacityRespected'
    BY <1>5 DEF Inv, SetNodeStatus, ToggleDrain, RecordLane, CapacityRespected, ActiveOn
  <2>2. ~pass'.running
    BY <1>5 DEF SetNodeStatus, ToggleDrain, RecordLane
  <2> QED BY <1>1, <2>1, <2>2 DEF Inv, LoopInv
<1>6. CASE UNCHANGED vars
  <2>1. CapacityRespected'
    BY <1>6 DEF Inv, vars, CapacityRespected, ActiveOn
  <2>2. LoopInv'
    <3>1. UNCHANGED <<status, assigned, pass>>
      BY <1>6 DEF vars
    <3>2. /\ Listed' = Listed /\ Done' = Done /\ Outcome' = Outcome
          /\ \A u : Given(u)' = Given(u)
      BY <3>1 DEF Listed, Done, Outcome, Given
    <3>3. \A m : PlacedOn(m)' = PlacedOn(m)
      BY <3>2 DEF PlacedOn
    <3>4. InOrder' = InOrder /\ SoFarFits' = SoFarFits /\ NoJump' = NoJump
      BY <3>1, <3>2 DEF InOrder, SoFarFits, NoJump
    <3>5. LoadsCount' = LoadsCount /\ LeftOnlyFull' = LeftOnlyFull
      BY <3>1, <3>2, <3>3 DEF LoadsCount, LeftOnlyFull, Refused
    <3>6. Spread' = Spread
      BY <3>1, <3>3 DEF Spread
    <3> QED BY <3>1, <3>4, <3>5, <3>6 DEF Inv, LoopInv
  <2> QED BY <1>1, <2>1, <2>2 DEF Inv
<1> QED BY <1>2, <1>3, <1>4, <1>5, <1>6 DEF Next

(* The invariant holds before the first pass, *)
LEMMA InvInit == Init => Inv
<1> SUFFICES ASSUME Init PROVE Inv
  OBVIOUS
<1>1. TypeInv
  BY FS_CardinalityType DEF Init, TypeInv, Status, Owners, Pins
<1>2. LoopInv
  BY DEF Init, LoopInv, Idle
<1>3. CapacityRespected
  <2>1. \A n \in Nodes : ActiveOn(status, assigned, n) = {}
    BY DEF Init, ActiveOn, ACTIVE_TASK_STATUSES
  <2>2. Cardinality({}) = 0
    BY FS_EmptySet
  <2>3. \A n \in Nodes : Cardinality(ActiveOn(status, assigned, n)) = 0
    BY <2>1, <2>2
  <2> QED BY <2>3 DEF CapacityRespected
<1> QED BY <1>1, <1>2, <1>3 DEF Inv

(* and every step keeps it. *)
LEMMA InvNext == Inv /\ [Next]_vars => Inv'
<1> SUFFICES ASSUME Inv, [Next]_vars PROVE Inv'
  OBVIOUS
<1>1. CASE PassStep
  <2>1. pass \in Passes
    BY <1>1, RunningPass DEF PassStep, Inv
  <2>2. PICK t \in pass.todo : Takes(t, choose_pinned(t, pass))
    BY <1>1, StepTakes
  <2>3. t \in Tasks
    BY <2>1 DEF Passes
  <2> QED BY <2>1, <2>2, <2>3, TakesInv
<1> QED BY <1>1, RestInv

(* At the end of a pass everything listed has been gone through. *)
LEMMA EndLoop ==
  ASSUME Inv, AtEnd
  PROVE  /\ InOrder /\ LoadsCount /\ SoFarFits /\ LeftOnlyFull /\ NoJump /\ Spread
         /\ Done = DOMAIN Outcome /\ pass \in Passes /\ pass.online \subseteq Nodes
         /\ \A t \in Done : Outcome[t] = Given(t)
         /\ DOMAIN Outcome \subseteq Tasks
<1>1. pass.running /\ pass.todo = {}
  BY DEF AtEnd
<1>2. pass \in Passes
  BY <1>1, RunningPass DEF Inv
<1>3. Done = Listed
  BY <1>1 DEF Done
<1>4. Listed \subseteq Tasks
  BY DEF Listed, Schedulable
<1> QED BY <1>1, <1>2, <1>3, <1>4, OutcomeAt DEF Inv, LoopInv, Passes

(* schedule_pending_detailed: the loop over the ready tasks, with its      *)
(* running loads and its cursor, computes one of the plans Planner allows  *)
(* for the rows the pass has read, which is what TaskBoard and its proofs  *)
(* take a pass to do.                                                      *)
THEOREM PassPlans == Spec => []PassMeetsPlan
<1>1. Inv => PassMeetsPlan
  <2> SUFFICES ASSUME Inv, AtEnd
               PROVE  Outcome \in Plans(pass.before.status, pass.before.assigned, pass.before.leased,
                                        pass.online, pass.drained, pass.pin)
    BY DEF PassMeetsPlan
  <2>1. Outcome \in [Listed -> Nodes \cup {NoNode}]
    <3>1. \A t \in Listed : Outcome[t] \in Owners
      BY EndLoop, OutcomeAt DEF SoFarFits
    <3>2. Outcome = [t \in Listed |-> IF status[t] = "running" THEN assigned[t] ELSE NoNode]
      BY DEF Outcome, Listed
    <3> HIDE DEF Listed
    <3> QED BY <3>1, <3>2 DEF Owners
  <2>2. \A t \in DOMAIN Outcome : Fits(Outcome, t, pass.before.status, pass.before.assigned,
                                       pass.online, pass.drained, pass.pin)
    BY EndLoop DEF SoFarFits
  <2> QED BY <2>1, <2>2 DEF Plans, Listed
<1> QED BY <1>1, InvInit, InvNext, PTL DEF Spec

(* AffinityScheduler and FairScheduler in that loop: no node is given more *)
(* than its slots, no task is left while a node it may have has one, none  *)
(* is passed over for a later one, and load-balanced tasks are spread to   *)
(* within one, whatever is pinned, drained or already running.             *)
THEOREM PassFair == Spec => []FairPass
<1>1. Inv => WorkConserving
  <2> SUFFICES ASSUME Inv, AtEnd, NEW t \in DOMAIN Outcome, Outcome[t] = NoNode,
                      PinOf(t, pass.pin) = NoNode
               PROVE  WithRoom(t, pass.online, pass.drained, pass.load) = {}
    BY DEF WorkConserving
  <2>1. Refused(t)
    BY EndLoop DEF LeftOnlyFull
  <2> QED BY <2>1 DEF Refused, WithRoom
<1>2. Inv => PriorityHonoured
  <2> SUFFICES ASSUME Inv, AtEnd, NEW t \in DOMAIN Outcome, NEW u \in DOMAIN Outcome,
                      SchedBefore(u, t), Outcome[t] # NoNode, Outcome[u] = NoNode
               PROVE  \/ ~node_can_run(u, Outcome[t], pass.drained)
                      \/ PinOf(u, pass.pin) \notin {NoNode, Outcome[t]}
    BY DEF PriorityHonoured
  <2> QED BY EndLoop DEF NoJump
<1>3. Inv => BalancedSpread
  <2> SUFFICES ASSUME Inv, AtEnd, NEW n \in pass.online, NEW m \in pass.online,
                      {t \in DOMAIN Outcome : Outcome[t] = n} # {},
                      \A t \in {t \in DOMAIN Outcome : Outcome[t] = n} :
                        PinOf(t, pass.pin) = NoNode /\ node_can_run(t, m, pass.drained),
                      ~node_at_capacity(m, pass.load[m])
               PROVE  pass.load[n] <= pass.load[m] + 1
    BY DEF BalancedSpread
  <2>1. PlacedOn(n) = {t \in DOMAIN Outcome : Outcome[t] = n}
    BY EndLoop DEF PlacedOn
  <2> QED BY <2>1, EndLoop DEF Spread
<1>4. Inv => FairPass
  BY <1>1, <1>2, <1>3 DEF FairPass, Inv
<1> QED BY <1>4, InvInit, InvNext, PTL DEF Spec
=============================================================================
