----------------------------- MODULE StoreProofs -----------------------------
(***************************************************************************)
(* Both other stores implement Store; what the federation keeps.           *)
(*                                                                         *)
(* The Postgres store's passes never lease a leased task again and it      *)
(* implements Store, for any number of callers, tasks, nodes and leases.   *)
(* Neither is inductive: a pass decides on what it read up to five         *)
(* statements earlier.  What it read stays a safe bound because of         *)
(*   PgOnePass     the advisory lock: one pass at a time, and what starts  *)
(*                 tasks or makes leases beside it is on record;           *)
(*   PgCountsBound so its counts are never below the loads, claims aside,  *)
(*   PgBarsLeased  and what it barred has every task with a live lease,    *)
(*                 but those that calls made since;                        *)
(*   PgPutsReady   the rows it has updated are locked, so still ready when *)
(*                 it commits;                                             *)
(*   PgRequeueOK   a requeue's leases are locked, so still of its task.    *)
(*                                                                         *)
(* The in-memory store keeps lanes serial and implements Store, for any    *)
(* tasks, nodes, capacities, lanes and number of threads.  Both follow     *)
(* from where tasks start: set_task_status aside, only a pass writes       *)
(* "running", and it reads the statuses, the lanes and the loads in the    *)
(* critical section that writes them.  Nothing that a thread carries from  *)
(* one section to the next (the nodes, the leased tasks, the lease to      *)
(* revoke, what a claim has read) is relied on for either.                 *)
(*                                                                         *)
(* The federation between stores applies no message twice and, in memory,  *)
(* takes no task back.  The log has reached the version of every message   *)
(* applied (SyClean) and an identity names one version (SyNamed), so what  *)
(* is ahead of the log is new.  A batch is a function of the messages gone *)
(* through; what each message keeps, the batch keeps (BatchKeeps).         *)
(***************************************************************************)
EXTENDS PgStore, MemStore, Sync, Integers, FiniteSetTheorems, WellFoundedInduction, TLAPS

USE PgAssumption

PgStatuses == PgTerminal \cup {"none", "pending", "ready", "running", "blocked"}
PgRows == [st : PgStatuses, node : PgNodes \cup {PgNobody}, deps : SUBSET PgTasks, attempts : Nat]
PgLeaseRows == [task : PgTasks \cup {PgNobody}, node : PgNodes \cup {PgNobody},
                live : BOOLEAN, passed : BOOLEAN]
PgPairs == PgTasks \X SUBSET PgTasks
PgPuts == UNION {[S -> PgNodes] : S \in SUBSET PgTasks}
PgTxs == [pc : PgScheduling \cup {"idle", "unassign", "requeue", "trigger", "promote"},
          task : PgTasks \cup {PgNobody}, nodes : SUBSET PgNodes, counts : [PgNodes -> Nat],
          set : SUBSET (PgTasks \cup PgSlots \cup PgPairs), barred : SUBSET PgTasks, put : PgPuts,
          lent : SUBSET PgTasks]

PgTypeOK ==
    /\ pgRow \in [PgTasks -> PgRows]
    /\ pgLease \in [PgSlots -> PgLeaseRows]
    /\ pgUp \subseteq PgNodes
    /\ pgTx \in [PgCallers -> PgTxs]
    /\ pgClaimed \subseteq PgTasks

PgRunning(n) == {t \in PgTasks \ pgClaimed : pgRow[t].st = "running" /\ pgRow[t].node = n}
PgPutOn(c, n) == {t \in DOMAIN pgTx[c].put : pgTx[c].put[t] = n}

(* What the set of a caller holds, by where it is. *)
PgSetOK(c) ==
    /\ pgTx[c].pc \in {"trigger", "promote"} => pgTx[c].set \subseteq PgPairs
    /\ pgTx[c].pc = "requeue" => pgTx[c].set \subseteq PgSlots
    /\ pgTx[c].pc = "assign" => pgTx[c].set \subseteq PgTasks
    /\ pgTx[c].pc \in {"unassign", "requeue", "promote"} =>
          pgTx[c].task \in PgTasks
    /\ pgTx[c].pc \in {"unassign", "requeue"} => pgRow[pgTx[c].task].st # "none"

(* The rows a pass has updated are ready, and it is in the middle of it. *)
PgPutsReady(c) ==
    \A t \in DOMAIN pgTx[c].put : pgTx[c].pc = "assign" /\ pgRow[t].st = "ready"

(* What a pass read bounds what is there when it commits. *)
PgCountsBound(c) ==
    pgTx[c].pc \in {"leased", "lanes", "ready", "assign"} =>
        \A n \in PgNodes :
            /\ Cardinality(PgRunning(n)) + Cardinality(PgPutOn(c, n)) <= pgTx[c].counts[n]
            /\ PgPutOn(c, n) # {} => pgTx[c].counts[n] <= PgCap[n]

PgBars(x) ==
    \A t \in PgTasks :
        /\ PgLive(t) # {} => t \in x.barred \cup x.lent
        /\ \A l \in PgLive(t) : pgLease[l].passed => t \in x.barred

PgBarsLeased(c) ==
    /\ pgTx[c].pc \in PgReadLeases => PgBars(pgTx[c])
    /\ pgTx[c].pc = "assign" =>
          pgTx[c].set \cap pgTx[c].barred = {} /\ DOMAIN pgTx[c].put \cap pgTx[c].barred = {}

(* The leases a requeue is about to revoke are its task's. *)
PgRequeueOK(c) ==
    pgTx[c].pc = "requeue" => \A l \in pgTx[c].set : pgLease[l].task = pgTx[c].task

PgCallerOK(c) ==
    PgSetOK(c) /\ PgPutsReady(c) /\ PgCountsBound(c) /\ PgBarsLeased(c) /\ PgRequeueOK(c)

(* One pass at a time, and no two requeues of one lease. *)
PgOnePass ==
    \A c, d \in PgCallers :
        pgTx[c].pc \in PgScheduling /\ pgTx[d].pc \in PgScheduling => c = d

PgRequeuesApart ==
    \A c, d \in PgCallers :
        c # d /\ pgTx[c].pc = "requeue" /\ pgTx[d].pc = "requeue" =>
            pgTx[c].set \cap pgTx[d].set = {}

(* PgOneLiveLease, lease by lease. *)
PgLeasesApart ==
    \A l, m \in PgSlots :
        pgLease[l].live /\ pgLease[m].live /\ pgLease[l].passed /\ pgLease[m].passed
        /\ pgLease[l].task = pgLease[m].task => l = m

PgInv ==
    /\ PgTypeOK
    /\ \A c \in PgCallers : PgCallerOK(c)
    /\ PgOnePass /\ PgRequeuesApart /\ PgLeasesApart

----------------------------------------------------------------------------
(* What every step but a commit and create_lease does to the tables:       *)
(* nothing starts but what is claimed, rows a pass has updated are left    *)
(* alone, no lease is made.                                                *)
PgQuiet ==
    /\ \A t \in PgTasks \ pgClaimed' : pgRow'[t].st = "running" =>
          t \notin pgClaimed /\ pgRow[t].st = "running" /\ pgRow'[t].node = pgRow[t].node
    /\ \A t \in PgTasks : PgRowLocked(t) => pgRow'[t] = pgRow[t]
    /\ \A t \in PgTasks : pgRow[t].st # "none" => pgRow'[t].st # "none"
    /\ \A l \in PgSlots : pgLease'[l].live => pgLease'[l] = pgLease[l]

(* The leases that a requeue of d has locked are left alone. *)
PgKeeps(d) ==
    pgTx[d].pc = "requeue" => \A l \in pgTx[d].set : pgLease'[l].task = pgLease[l].task

(* There are finitely many lease rows. *)
LEMMA PgSlotsFinite == IsFiniteSet(PgSlots)
  BY FS_Interval DEF PgSlots

(* And finitely many tasks in any set of them. *)
LEMMA PgTasksFinite == ASSUME NEW S \in SUBSET PgTasks PROVE IsFiniteSet(S) /\ Cardinality(S) \in Nat
  BY FS_Subset, FS_CardinalityType

(* What a pass has placed so far, as a function. *)
LEMMA PgPutTyped ==
  ASSUME PgTypeOK, NEW c \in PgCallers
  PROVE  /\ DOMAIN pgTx[c].put \in SUBSET PgTasks
         /\ pgTx[c].put \in [DOMAIN pgTx[c].put -> PgNodes]
  BY DEF PgTypeOK, PgTxs, PgPuts

(* A transaction at rest. *)
LEMMA PgIdleTyped == PgIdle \in PgTxs
  <1>1. [t \in {} |-> PgNobody] \in PgPuts
    <2>1. [t \in {} |-> PgNobody] \in [{} -> PgNodes] /\ {} \in SUBSET PgTasks
      OBVIOUS
    <2> QED BY <2>1 DEF PgPuts
  <1> DEFINE none == [t \in {} |-> PgNobody]
             zero == [n \in PgNodes |-> 0]
  <1>2. zero \in [PgNodes -> Nat]
    OBVIOUS
  <1>3. PgIdle = [pc |-> "idle", task |-> PgNobody, nodes |-> {}, counts |-> zero,
                  set |-> {}, barred |-> {}, put |-> none, lent |-> {}]
    BY DEF PgIdle
  <1> HIDE DEF none, zero
  <1>4. none \in PgPuts
    BY <1>1 DEF none
  <1> QED BY <1>2, <1>3, <1>4 DEF PgTxs

(* A caller that is idle owes nothing. *)
LEMMA PgIdleFields ==
  /\ PgIdle.pc = "idle" /\ PgIdle.task = PgNobody /\ PgIdle.nodes = {}
  /\ PgIdle.set = {} /\ PgIdle.barred = {} /\ DOMAIN PgIdle.put = {}
  BY DEF PgIdle

(* A caller that did not move is still right after a quiet step. *)
LEMMA PgStays ==
  ASSUME PgTypeOK, PgTypeOK', PgQuiet, NEW d \in PgCallers, pgTx'[d] = pgTx[d],
         PgCallerOK(d), PgKeeps(d)
  PROVE  PgCallerOK(d)'
  <1>1. PgSetOK(d)'
    BY DEF PgCallerOK, PgSetOK, PgQuiet
  <1>2. PgPutsReady(d)'
    <2>1. ASSUME NEW t \in DOMAIN pgTx[d].put
          PROVE  pgTx[d].pc = "assign" /\ pgRow'[t].st = "ready"
      <3>1. t \in PgTasks /\ PgRowLocked(t)
        BY <2>1, PgPutTyped DEF PgRowLocked
      <3> QED BY <2>1, <3>1 DEF PgCallerOK, PgPutsReady, PgQuiet
    <2> QED BY <2>1 DEF PgPutsReady
  <1>3. PgCountsBound(d)'
    <2> SUFFICES ASSUME NEW n \in PgNodes, pgTx[d].pc \in {"leased", "lanes", "ready", "assign"}
                 PROVE  /\ Cardinality(PgRunning(n)') + Cardinality(PgPutOn(d, n)) <= pgTx[d].counts[n]
                        /\ PgPutOn(d, n) # {} => pgTx[d].counts[n] <= PgCap[n]
      BY DEF PgCountsBound, PgPutOn
    <2>1. PgRunning(n)' \subseteq PgRunning(n) /\ PgRunning(n) \subseteq PgTasks
      BY DEF PgQuiet, PgRunning
    <2>2. PgPutOn(d, n) \subseteq PgTasks
      BY PgPutTyped DEF PgPutOn
    <2>3. /\ Cardinality(PgRunning(n)') \in Nat /\ Cardinality(PgRunning(n)) \in Nat
          /\ Cardinality(PgPutOn(d, n)) \in Nat
      BY <2>1, <2>2, PgTasksFinite
    <2>4. Cardinality(PgRunning(n)') <= Cardinality(PgRunning(n))
      BY <2>1, FS_Subset, PgTasksFinite
    <2>5. pgTx[d].counts[n] \in Nat
      BY DEF PgTypeOK, PgTxs
    <2>6. /\ Cardinality(PgRunning(n)) + Cardinality(PgPutOn(d, n)) <= pgTx[d].counts[n]
          /\ PgPutOn(d, n) # {} => pgTx[d].counts[n] <= PgCap[n]
      BY DEF PgCallerOK, PgCountsBound
    <2> QED BY <2>3, <2>4, <2>5, <2>6
  <1>4. PgBarsLeased(d)'
    <2>1. ASSUME NEW t \in PgTasks
          PROVE  /\ PgLive(t)' \subseteq PgLive(t)
                 /\ \A l \in PgLive(t)' : pgLease'[l] = pgLease[l]
      BY <2>1 DEF PgLive, PgQuiet
    <2>2. PgBars(pgTx[d]) => PgBars(pgTx[d])'
      BY <2>1 DEF PgBars
    <2> QED BY <2>2 DEF PgCallerOK, PgBarsLeased
  <1>5. PgRequeueOK(d)'
    BY DEF PgCallerOK, PgRequeueOK, PgKeeps
  <1> QED BY <1>1, <1>2, <1>3, <1>4, <1>5 DEF PgCallerOK

(* It owes nothing. *)
LEMMA PgIdleOK ==
  ASSUME NEW c \in PgCallers, pgTx'[c] = PgIdle
  PROVE  PgCallerOK(c)'
  BY PgIdleFields DEF PgCallerOK, PgSetOK, PgPutsReady, PgCountsBound, PgBarsLeased, PgRequeueOK,
                PgReadLeases

(* Quiet steps make no lease. *)
LEMMA PgLeasesStayApart ==
  ASSUME PgLeasesApart, PgQuiet
  PROVE  PgLeasesApart'
  BY DEF PgLeasesApart, PgQuiet

(* A quiet step in which nobody moves. *)
LEMMA PgStillStep ==
  ASSUME PgInv, PgTypeOK', PgQuiet, UNCHANGED pgTx, \A d \in PgCallers : PgKeeps(d)
  PROVE  PgInv'
  <1>1. \A d \in PgCallers : PgCallerOK(d)'
    BY PgStays DEF PgInv
  <1>2. PgOnePass' /\ PgRequeuesApart'
    BY DEF PgInv, PgOnePass, PgRequeuesApart
  <1> QED BY <1>1, <1>2, PgLeasesStayApart DEF PgInv

(* A quiet step in which c moves: into a pass only when there is none, and *)
(* into a requeue only of leases that no other one has locked.             *)
LEMMA PgMoveStep ==
  ASSUME PgInv, PgTypeOK', PgQuiet, NEW c \in PgCallers,
         \A d \in PgCallers \ {c} : pgTx'[d] = pgTx[d] /\ PgKeeps(d),
         PgCallerOK(c)',
         pgTx'[c].pc \in PgScheduling =>
            \/ pgTx[c].pc \in PgScheduling
            \/ \A d \in PgCallers : pgTx[d].pc \notin PgScheduling,
         pgTx'[c].pc = "requeue" =>
            \A d \in PgCallers \ {c} :
                pgTx[d].pc = "requeue" => pgTx[d].set \cap pgTx'[c].set = {}
  PROVE  PgInv'
  <1>1. \A d \in PgCallers : PgCallerOK(d)'
    BY PgStays DEF PgInv
  <1>2. PgOnePass'
    BY DEF PgInv, PgOnePass
  <1>3. PgRequeuesApart'
    <2> SUFFICES ASSUME NEW a \in PgCallers, NEW b \in PgCallers, a # b,
                        pgTx'[a].pc = "requeue", pgTx'[b].pc = "requeue"
                 PROVE  pgTx'[a].set \cap pgTx'[b].set = {}
      BY DEF PgRequeuesApart
    <2>1. CASE a = c
      BY <2>1
    <2>2. CASE b = c
      BY <2>2
    <2>3. CASE a # c /\ b # c
      BY <2>3 DEF PgInv, PgRequeuesApart
    <2> QED BY <2>1, <2>2, <2>3
  <1> QED BY <1>1, <1>2, <1>3, PgLeasesStayApart DEF PgInv

----------------------------------------------------------------------------
(* Every step is one of these. *)
PgSame(t) == pgRow'[t].st = pgRow[t].st /\ pgRow'[t].node = pgRow[t].node

PgAdmits ==
    /\ \A t \in PgTasks :
          \/ PgSame(t)
          \/ /\ pgRow'[t].node = pgRow[t].node
             /\ pgRow[t].st \in {"none", "pending", "ready"}
             /\ pgRow'[t].st \in {"pending", "ready"}
    /\ UNCHANGED <<pgLease, pgClaimed>>

PgDrops ==
    /\ UNCHANGED <<pgRow, pgClaimed>>
    /\ \A l \in PgSlots : pgLease'[l] = pgLease[l] \/ ~pgLease'[l].live

PgWrites(t) ==
    /\ pgRow[t].st # "none" /\ pgRow'[t].node = pgRow[t].node
    /\ pgRow'[t].st \in PgTerminal \cup {"blocked", "ready", "pending"}
    /\ \A u \in PgTasks \ {t} : PgSame(u)
    /\ UNCHANGED <<pgLease, pgClaimed>>

PgClaims(t) ==
    /\ pgRow[t].st # "none" /\ pgRow'[t].node = pgRow[t].node
    /\ pgRow'[t].st = "running" /\ pgClaimed' = pgClaimed \cup {t}
    /\ \A u \in PgTasks \ {t} : PgSame(u)
    /\ UNCHANGED pgLease

PgYields(t) ==
    /\ pgRow[t].st \notin PgTerminal \cup {"none"}
    /\ pgRow'[t].st = "ready" /\ pgRow'[t].node = PgNobody
    /\ \A u \in PgTasks \ {t} : PgSame(u)
    /\ UNCHANGED pgClaimed
    /\ \A l \in PgSlots :
          \/ pgLease'[l] = pgLease[l]
          \/ pgLease[l].task = t /\ ~pgLease'[l].live

PgLeaseOf(t, n) == [task |-> t, node |-> n, live |-> TRUE, passed |-> TRUE]
PgCallLease(t, n) == [task |-> t, node |-> n, live |-> TRUE, passed |-> FALSE]

PgLends(t, n) ==
    /\ UNCHANGED <<pgRow, pgClaimed>>
    /\ \E l \in PgSlots :
          /\ pgLease[l] = PgFree
          /\ pgLease' = [pgLease EXCEPT ![l] = PgCallLease(t, n)]

PgStarts(S, f) ==
    /\ \A t \in S : pgRow[t].st = "ready" /\ \A l \in PgLive(t) : ~pgLease[l].passed
    /\ pgClaimed' = pgClaimed \ S
    /\ \A n \in PgNodes :
          LET k == Cardinality({t \in S : f[t] = n})
          IN  k > 0 => Cardinality(PgRunning(n)) + k <= PgCap[n]
    /\ pgRow' = [t \in PgTasks |-> IF t \in S
          THEN [pgRow[t] EXCEPT !.st = "running", !.node = f[t]] ELSE pgRow[t]]
    /\ \E slot \in [S -> PgSlots] :
          /\ \A t \in S : /\ pgLease[slot[t]] = PgFree
                         /\ pgLease'[slot[t]] = PgLeaseOf(t, f[t])
          /\ \A l \in PgSlots : pgLease'[l] = pgLease[l] \/ \E t \in S : l = slot[t]

PgEffect ==
    \/ PgAdmits \/ PgDrops
    \/ \E t \in PgTasks : PgWrites(t) \/ PgClaims(t) \/ PgYields(t)
    \/ \E t \in PgTasks, n \in PgNodes : PgLends(t, n)
    \/ \E S \in SUBSET PgTasks : \E f \in [S -> PgNodes] : PgStarts(S, f)

----------------------------------------------------------------------------
(* Statements on one row. *)

(* A row write that starts nothing unclaimed, of a row no pass has         *)
(* updated.                                                                *)
LEMMA PgRowWriteQuiet ==
  ASSUME PgTypeOK, NEW t \in PgTasks, NEW row \in PgRows,
         pgRow' = [pgRow EXCEPT ![t] = row], UNCHANGED <<pgLease, pgUp>>,
         pgTx' \in [PgCallers -> PgTxs],
         ~PgRowLocked(t), row.st # "none",
         pgClaimed \subseteq pgClaimed', pgClaimed' \subseteq PgTasks,
         row.st = "running" =>
            t \in pgClaimed' \/ (row.st = pgRow[t].st /\ row.node = pgRow[t].node)
  PROVE  PgTypeOK' /\ PgQuiet /\ \A d \in PgCallers : PgKeeps(d)
  <1>1. PgTypeOK'
    BY DEF PgTypeOK, PgSlots
  <1>2. \A u \in PgTasks : pgRow'[u] = IF u = t THEN row ELSE pgRow[u]
    BY DEF PgTypeOK
  <1> QED BY <1>1, <1>2 DEF PgQuiet, PgKeeps

(* create_task. *)
LEMMA PgCreateStep ==
  ASSUME PgInv, NEW c \in PgCallers, NEW t \in PgTasks, pg_create_task(c, t)
  PROVE  PgInv' /\ PgEffect
  <1> DEFINE s == IF PgDeps[t] = {} THEN "ready" ELSE "pending"
             row == [pgRow[t] EXCEPT !.st = s, !.deps = PgDeps[t]]
  <1>1. pgRow[t] \in PgRows /\ s \in {"ready", "pending"} /\ PgDeps[t] \in SUBSET PgTasks
    BY DEF PgInv, PgTypeOK
  <1>2. pgRow' = [pgRow EXCEPT ![t] = row] /\ pgRow[t].st = "none"
    BY DEF pg_create_task, PgInv, PgTypeOK
  <1> HIDE DEF s
  <1>3. row \in PgRows /\ row.st = s /\ row.node = pgRow[t].node
    BY <1>1 DEF PgRows, PgStatuses
  <1> HIDE DEF row
  <1>4. ~PgRowLocked(t)
    BY <1>2 DEF PgRowLocked, PgInv, PgCallerOK, PgPutsReady
  <1>5. UNCHANGED <<pgLease, pgUp, pgTx, pgClaimed>>
    BY DEF pg_create_task
  <1>6. PgTypeOK' /\ PgQuiet /\ \A d \in PgCallers : PgKeeps(d)
    BY <1>1, <1>2, <1>3, <1>4, <1>5, PgRowWriteQuiet DEF PgInv, PgTypeOK
  <1>7. PgAdmits
    BY <1>1, <1>2, <1>3, <1>5 DEF PgAdmits, PgSame, PgInv, PgTypeOK
  <1> QED BY <1>5, <1>6, <1>7, PgStillStep DEF PgEffect

(* set_task_status and the unblocking writes. *)
LEMMA PgStatusStep ==
  ASSUME PgInv, NEW c \in PgCallers, NEW t \in PgTasks,
         NEW s \in PgTerminal \cup {"blocked", "ready", "pending"},
         pg_set_task_status(c, t, s) \/ pg_unblock(c, t, s)
  PROVE  PgInv' /\ PgEffect
  <1> DEFINE row == [pgRow[t] EXCEPT !.st = s]
  <1>1. pgRow[t] \in PgRows /\ s \in PgStatuses \ {"none", "running"}
    BY DEF PgInv, PgTypeOK, PgStatuses, PgTerminal
  <1>2. /\ pgRow' = [pgRow EXCEPT ![t] = row] /\ pgRow[t].st # "none" /\ ~PgRowLocked(t)
        /\ UNCHANGED <<pgLease, pgUp, pgTx, pgClaimed>>
    BY <1>1 DEF pg_set_task_status, pg_unblock, PgInv, PgTypeOK
  <1>3. row \in PgRows /\ row.st = s /\ row.node = pgRow[t].node
    BY <1>1 DEF PgRows
  <1> HIDE DEF row
  <1>4. PgTypeOK' /\ PgQuiet /\ \A d \in PgCallers : PgKeeps(d)
    BY <1>1, <1>2, <1>3, PgRowWriteQuiet DEF PgInv, PgTypeOK
  <1>5. PgWrites(t)
    BY <1>1, <1>2, <1>3 DEF PgWrites, PgSame, PgInv, PgTypeOK
  <1> QED BY <1>2, <1>4, <1>5, PgStillStep DEF PgEffect

(* set_task_status to running. *)
LEMMA PgClaimStep ==
  ASSUME PgInv, NEW c \in PgCallers, NEW t \in PgTasks, pg_set_task_status(c, t, "running")
  PROVE  PgInv' /\ PgEffect
  <1> DEFINE row == [pgRow[t] EXCEPT !.st = "running"]
  <1>1. pgRow[t] \in PgRows
    BY DEF PgInv, PgTypeOK
  <1>2. /\ pgRow' = [pgRow EXCEPT ![t] = row] /\ pgRow[t].st # "none" /\ ~PgRowLocked(t)
        /\ UNCHANGED <<pgLease, pgUp, pgTx>> /\ pgClaimed' = pgClaimed \cup {t}
    BY DEF pg_set_task_status, PgInv, PgTypeOK
  <1>3. row \in PgRows /\ row.st = "running" /\ row.node = pgRow[t].node
    BY <1>1 DEF PgRows, PgStatuses
  <1> HIDE DEF row
  <1>4. PgTypeOK' /\ PgQuiet /\ \A d \in PgCallers : PgKeeps(d)
    BY <1>1, <1>2, <1>3, PgRowWriteQuiet DEF PgInv, PgTypeOK
  <1>5. PgClaims(t)
    BY <1>1, <1>2, <1>3 DEF PgClaims, PgSame, PgInv, PgTypeOK
  <1> QED BY <1>2, <1>4, <1>5, PgStillStep DEF PgEffect

(* set_dependencies. *)
LEMMA PgDepsStep ==
  ASSUME PgInv, NEW c \in PgCallers, NEW t \in PgTasks, NEW D \in SUBSET PgTasks,
         pg_set_dependencies(c, t, D)
  PROVE  PgInv' /\ PgEffect
  <1> DEFINE s == IF D # {} /\ pgRow[t].st = "ready" THEN "pending" ELSE pgRow[t].st
             row == [pgRow[t] EXCEPT !.deps = D, !.st = s]
  <1>1. pgRow[t] \in PgRows /\ pgRow[t].st \in PgStatuses
    BY DEF PgInv, PgTypeOK, PgRows
  <1>2. /\ s \in PgStatuses
        /\ s = pgRow[t].st \/ (pgRow[t].st = "ready" /\ s = "pending")
    BY <1>1 DEF PgStatuses
  <1>3. /\ pgRow' = [pgRow EXCEPT ![t] = row] /\ pgRow[t].st # "none" /\ ~PgRowLocked(t)
        /\ UNCHANGED <<pgLease, pgUp, pgTx, pgClaimed>>
    BY DEF pg_set_dependencies, PgInv, PgTypeOK
  <1> HIDE DEF s
  <1>4. row \in PgRows /\ row.st = s /\ row.node = pgRow[t].node
    BY <1>1, <1>2 DEF PgRows
  <1> HIDE DEF row
  <1>5. PgTypeOK' /\ PgQuiet /\ \A d \in PgCallers : PgKeeps(d)
    BY <1>2, <1>3, <1>4, PgRowWriteQuiet DEF PgInv, PgTypeOK
  <1>6. PgAdmits
    BY <1>2, <1>3, <1>4 DEF PgAdmits, PgSame, PgInv, PgTypeOK
  <1> QED BY <1>3, <1>5, <1>6, PgStillStep DEF PgEffect

----------------------------------------------------------------------------
(* Leases that go: revoked, swept or run out. *)
LEMMA PgLeaseStep ==
  ASSUME PgInv, UNCHANGED <<pgRow, pgTx, pgClaimed>>, pgUp' \subseteq PgNodes,
         pgLease' \in [PgSlots -> PgLeaseRows],
         \A l \in PgSlots :
            \/ pgLease'[l] = pgLease[l]
            \/ ~pgLease'[l].live /\ (pgLease'[l].task = pgLease[l].task \/ ~PgLeaseLocked(l))
  PROVE  PgInv' /\ PgEffect
  <1>1. PgTypeOK' /\ PgQuiet /\ PgDrops
    BY DEF PgInv, PgTypeOK, PgQuiet, PgDrops
  <1>2. ASSUME NEW d \in PgCallers, pgTx[d].pc = "requeue", NEW l \in pgTx[d].set
        PROVE  pgLease'[l].task = pgLease[l].task
    <2>1. l \in PgSlots /\ PgLeaseLocked(l)
      BY <1>2 DEF PgLeaseLocked, PgInv, PgCallerOK, PgSetOK
    <2> QED BY <2>1
  <1>3. \A d \in PgCallers : PgKeeps(d)
    BY <1>2 DEF PgKeeps
  <1> QED BY <1>1, <1>3, PgStillStep DEF PgEffect

(* A free lease row is no lease. *)
LEMMA PgFreeTyped == PgFree \in PgLeaseRows /\ ~PgFree.live
  BY DEF PgFree, PgLeaseRows

(* revoke_lease. *)
LEMMA PgRevokeStep ==
  ASSUME PgInv, NEW c \in PgCallers, NEW l \in PgSlots, pg_revoke_lease(c, l)
  PROVE  PgInv' /\ PgEffect
  <1>1. pgLease' = [pgLease EXCEPT ![l] = PgFree] /\ ~PgLeaseLocked(l) /\ UNCHANGED <<pgRow, pgUp, pgTx, pgClaimed>>
    BY DEF pg_revoke_lease
  <1>2. pgLease' \in [PgSlots -> PgLeaseRows] /\ pgUp' \subseteq PgNodes
    BY <1>1, PgFreeTyped DEF PgInv, PgTypeOK
  <1>3. \A m \in PgSlots : pgLease'[m] = IF m = l THEN PgFree ELSE pgLease[m]
    BY <1>1 DEF PgInv, PgTypeOK
  <1> QED BY <1>1, <1>2, <1>3, PgFreeTyped, PgLeaseStep

(* get_active_leases, which expires what has lapsed. *)
LEMMA PgSweepStep ==
  ASSUME PgInv, NEW c \in PgCallers, pg_get_active_leases(c)
  PROVE  PgInv' /\ PgEffect
  <1>1. PICK L : /\ \A l \in L : ~PgLeaseLocked(l)
                 /\ pgLease' = [l \in PgSlots |-> IF l \in L THEN PgFree ELSE pgLease[l]]
    BY DEF pg_get_active_leases
  <1>2. UNCHANGED <<pgRow, pgTx, pgClaimed>> /\ pgUp' \subseteq PgNodes
    BY DEF pg_get_active_leases, PgInv, PgTypeOK
  <1>3. pgLease' \in [PgSlots -> PgLeaseRows]
    BY <1>1, PgFreeTyped DEF PgInv, PgTypeOK
  <1>4. \A l \in PgSlots : pgLease'[l] = IF l \in L THEN PgFree ELSE pgLease[l]
    BY <1>1
  <1> QED BY <1>1, <1>2, <1>3, <1>4, PgFreeTyped, PgLeaseStep

(* A lease runs out. *)
LEMMA PgLapseStep ==
  ASSUME PgInv, NEW l \in PgSlots, PgLapse(l)
  PROVE  PgInv' /\ PgEffect
  <1> DEFINE gone == [pgLease[l] EXCEPT !.live = FALSE]
  <1>1. gone \in PgLeaseRows /\ ~gone.live /\ gone.task = pgLease[l].task
    BY DEF PgInv, PgTypeOK, PgLeaseRows
  <1>2. /\ pgLease' = [pgLease EXCEPT ![l] = gone]
        /\ UNCHANGED <<pgRow, pgTx, pgClaimed>> /\ pgUp' \subseteq PgNodes
    BY DEF PgLapse, PgInv, PgTypeOK
  <1> HIDE DEF gone
  <1>3. pgLease' \in [PgSlots -> PgLeaseRows]
    BY <1>1, <1>2 DEF PgInv, PgTypeOK
  <1>4. \A m \in PgSlots : pgLease'[m] = IF m = l THEN gone ELSE pgLease[m]
    BY <1>2 DEF PgInv, PgTypeOK
  <1> QED BY <1>1, <1>2, <1>3, <1>4, PgLeaseStep

(* A node goes or comes back. *)
LEMMA PgFlipStep ==
  ASSUME PgInv, NEW n \in PgNodes, PgNodeFlips(n)
  PROVE  PgInv' /\ PgEffect
  <1>1. UNCHANGED <<pgRow, pgTx, pgLease, pgClaimed>> /\ pgUp' \subseteq PgNodes
    BY DEF PgNodeFlips, PgInv, PgTypeOK
  <1>2. pgLease' \in [PgSlots -> PgLeaseRows]
    BY <1>1 DEF PgInv, PgTypeOK
  <1> QED BY <1>1, <1>2, PgLeaseStep

(* create_lease: a pass that has read the leases has the new one on record *)
(* as lent; nothing else that anyone knows is touched.                     *)
LEMMA PgLendStep ==
  ASSUME PgInv, NEW c \in PgCallers, NEW t \in PgTasks, NEW n \in PgNodes, pg_create_lease(c, t, n)
  PROVE  PgInv' /\ PgEffect
  <1> DEFINE new == PgCallLease(t, n)
             late(x) == IF x.pc \in PgReadLeases THEN [x EXCEPT !.lent = @ \cup {t}] ELSE x
  <1>1. PICK l \in PgSlots : pgLease[l] = PgFree /\ pgLease' = [pgLease EXCEPT ![l] = new]
    BY DEF pg_create_lease, PgCallLease
  <1>2. /\ new \in PgLeaseRows /\ new.task = t /\ ~new.passed
        /\ ~PgFree.live /\ PgFree.task = PgNobody
    BY DEF PgCallLease, PgLeaseRows, PgFree
  <1>3. PgLends(t, n) /\ UNCHANGED <<pgRow, pgUp, pgClaimed>>
    BY <1>1 DEF PgLends, pg_create_lease
  <1> HIDE DEF new
  <1>4. \A m \in PgSlots : pgLease'[m] = IF m = l THEN new ELSE pgLease[m]
    BY <1>1 DEF PgInv, PgTypeOK
  <1>5. ASSUME NEW x \in PgTxs
        PROVE  /\ late(x) \in PgTxs /\ late(x).pc = x.pc /\ late(x).task = x.task
               /\ late(x).counts = x.counts /\ late(x).set = x.set /\ late(x).barred = x.barred
               /\ late(x).put = x.put /\ x.lent \subseteq late(x).lent
               /\ x.pc \in PgReadLeases => t \in late(x).lent
    BY DEF PgTxs
  <1>6. \A d \in PgCallers : pgTx'[d] = late(pgTx[d])
    BY DEF pg_create_lease
  <1>7. \A d \in PgCallers : pgTx[d] \in PgTxs
    BY DEF PgInv, PgTypeOK
  <1>8. PgTypeOK'
    <2>1. pgTx' = [d \in PgCallers |-> late(pgTx[d])]
      BY DEF pg_create_lease
    <2>2. pgTx' \in [PgCallers -> PgTxs]
      BY <1>5, <1>7, <2>1
    <2> QED BY <1>1, <1>2, <1>3, <2>2 DEF PgInv, PgTypeOK, PgSlots
  <1> HIDE DEF late
  <1>9. ASSUME NEW d \in PgCallers
        PROVE  PgCallerOK(d)'
    <2>1. /\ pgTx'[d].pc = pgTx[d].pc /\ pgTx'[d].task = pgTx[d].task
          /\ pgTx'[d].counts = pgTx[d].counts /\ pgTx'[d].set = pgTx[d].set
          /\ pgTx'[d].barred = pgTx[d].barred /\ pgTx'[d].put = pgTx[d].put
          /\ pgTx[d].lent \subseteq pgTx'[d].lent
          /\ pgTx[d].pc \in PgReadLeases => t \in pgTx'[d].lent
      BY <1>5, <1>6, <1>7
    <2>2. PgCallerOK(d)
      BY DEF PgInv
    <2>3. PgSetOK(d)' /\ PgPutsReady(d)' /\ PgCountsBound(d)'
      BY <1>3, <2>1, <2>2 DEF PgCallerOK, PgSetOK, PgPutsReady, PgCountsBound, PgRunning, PgPutOn
    <2>4. PgBarsLeased(d)'
      <3>1. ASSUME pgTx[d].pc \in PgReadLeases, NEW u \in PgTasks
            PROVE  /\ PgLive(u)' # {} => u \in pgTx'[d].barred \cup pgTx'[d].lent
                   /\ \A m \in PgLive(u)' : pgLease'[m].passed => u \in pgTx'[d].barred
        <4>1. PgBars(pgTx[d])
          BY <2>2, <3>1 DEF PgCallerOK, PgBarsLeased
        <4>2. ASSUME NEW m \in PgLive(u)' PROVE u = t \/ m \in PgLive(u)
          BY <1>2, <1>4 DEF PgLive
        <4>3. ASSUME NEW m \in PgLive(u)', pgLease'[m].passed
              PROVE  m \in PgLive(u) /\ pgLease[m].passed
          BY <1>2, <1>4, <4>3 DEF PgLive
        <4> QED BY <2>1, <3>1, <4>1, <4>2, <4>3 DEF PgBars
      <3>2. pgTx[d].pc \in PgReadLeases => PgBars(pgTx[d])'
        BY <3>1 DEF PgBars
      <3> QED BY <2>1, <2>2, <3>2 DEF PgCallerOK, PgBarsLeased
    <2>5. PgRequeueOK(d)'
      <3> SUFFICES ASSUME pgTx[d].pc = "requeue", NEW m \in pgTx[d].set
                   PROVE  pgLease'[m].task = pgTx[d].task
        BY <2>1 DEF PgRequeueOK
      <3>1. m \in PgSlots /\ pgLease[m].task = pgTx[d].task /\ pgTx[d].task \in PgTasks
        BY <2>2 DEF PgCallerOK, PgRequeueOK, PgSetOK
      <3>2. m # l
        BY <1>1, <1>2, <3>1 DEF PgNobody
      <3> QED BY <1>4, <3>1, <3>2
    <2> QED BY <2>3, <2>4, <2>5 DEF PgCallerOK
  <1>10. PgOnePass' /\ PgRequeuesApart'
    <2>1. \A d \in PgCallers : pgTx'[d].pc = pgTx[d].pc /\ pgTx'[d].set = pgTx[d].set
      BY <1>5, <1>6, <1>7
    <2> QED BY <2>1 DEF PgInv, PgOnePass, PgRequeuesApart
  <1>11. PgLeasesApart'
    BY <1>2, <1>4 DEF PgInv, PgLeasesApart
  <1> QED BY <1>3, <1>8, <1>9, <1>10, <1>11 DEF PgInv, PgEffect

----------------------------------------------------------------------------
(* Statements that only move their caller: c goes to x. *)
PgMovesTo(c, x) ==
    /\ pgTx' = [pgTx EXCEPT ![c] = x]
    /\ UNCHANGED <<pgRow, pgLease, pgUp, pgClaimed>>

(* A transaction that goes on without writing rows. *)
LEMMA PgMoves ==
  ASSUME PgInv, NEW c \in PgCallers, NEW x \in PgTxs, PgMovesTo(c, x)
  PROVE  /\ PgTypeOK' /\ PgQuiet /\ PgEffect /\ pgTx'[c] = x
         /\ \A d \in PgCallers \ {c} : pgTx'[d] = pgTx[d] /\ PgKeeps(d)
  <1>1. PgTypeOK' /\ PgQuiet
    BY DEF PgMovesTo, PgInv, PgTypeOK, PgQuiet
  <1>2. pgTx'[c] = x /\ \A d \in PgCallers \ {c} : pgTx'[d] = pgTx[d]
    BY DEF PgMovesTo, PgInv, PgTypeOK
  <1> QED BY <1>1, <1>2 DEF PgMovesTo, PgKeeps, PgEffect, PgDrops

(* The call ends, by itself or because its connection broke: everything it *)
(* had written is rolled back.                                             *)
LEMMA PgEndStep ==
  ASSUME PgInv, NEW c \in PgCallers, PgMovesTo(c, PgIdle)
  PROVE  PgInv' /\ PgEffect
  <1>1. PgCallerOK(c)'
    BY PgMoves, PgIdleTyped, PgIdleOK
  <1>2. pgTx'[c].pc \notin PgScheduling /\ pgTx'[c].pc # "requeue"
    BY PgMoves, PgIdleTyped, PgIdleFields DEF PgScheduling
  <1> QED BY <1>1, <1>2, PgMoves, PgIdleTyped, PgMoveStep

(* The first statements of unassign_task, requeue_task and                 *)
(* trigger_pending_tasks, and the reads between its promotions.            *)
LEMMA PgScanStep ==
  ASSUME PgInv, NEW c \in PgCallers, NEW x \in PgTxs, PgMovesTo(c, x),
         DOMAIN x.put = {}, x.pc \notin PgScheduling,
         x.pc \in {"trigger", "promote"} => x.set \subseteq PgPairs,
         x.pc \in {"unassign", "requeue", "promote"} => x.task \in PgTasks,
         x.pc \in {"unassign", "requeue"} => pgRow[x.task].st # "none",
         x.pc = "requeue" =>
            \A l \in x.set : l \in PgSlots /\ pgLease[l].task = x.task /\ ~PgLeaseLocked(l)
  PROVE  PgInv' /\ PgEffect
  <1>1. pgTx'[c] = x /\ UNCHANGED <<pgRow, pgLease>>
    BY PgMoves DEF PgMovesTo
  <1>2. PgCallerOK(c)'
    BY <1>1 DEF PgCallerOK, PgSetOK, PgPutsReady, PgCountsBound, PgBarsLeased, PgRequeueOK, PgScheduling,
                PgReadLeases
  <1>3. ASSUME x.pc = "requeue", NEW d \in PgCallers \ {c}, pgTx[d].pc = "requeue"
        PROVE  pgTx[d].set \cap x.set = {}
    BY <1>3 DEF PgLeaseLocked
  <1> QED BY <1>1, <1>2, <1>3, PgMoves, PgMoveStep

(* unassign_task: its reads. *)
LEMMA PgUnassignScanStep ==
  ASSUME PgInv, NEW c \in PgCallers, NEW t \in PgTasks, pg_unassign_scan(c, t)
  PROVE  PgInv' /\ PgEffect
  <1> DEFINE x == [PgIdle EXCEPT !.pc = "unassign", !.task = t]
  <1>1. PgMovesTo(c, x) /\ pgRow[t].st # "none"
    BY DEF pg_unassign_scan, PgGoto, PgMovesTo
  <1>2. x \in PgTxs /\ x.pc = "unassign" /\ x.task = t /\ x.put = PgIdle.put
    BY PgIdleTyped DEF PgTxs
  <1> HIDE DEF x
  <1> QED BY <1>1, <1>2, PgIdleFields, PgScanStep DEF PgScheduling

(* requeue_task: its reads. *)
LEMMA PgRequeueScanStep ==
  ASSUME PgInv, NEW c \in PgCallers, NEW t \in PgTasks, pg_requeue_scan(c, t)
  PROVE  PgInv' /\ PgEffect
  <1> DEFINE x == [PgIdle EXCEPT !.pc = "requeue", !.task = t, !.set = PgLive(t)]
  <1>1. PgMovesTo(c, x) /\ pgRow[t].st # "none" /\ \A l \in PgLive(t) : ~PgLeaseLocked(l)
    BY DEF pg_requeue_scan, PgGoto, PgMovesTo
  <1>2. PgLive(t) \in SUBSET (PgTasks \cup PgSlots \cup PgPairs)
        /\ \A l \in PgLive(t) : l \in PgSlots /\ pgLease[l].task = t
    BY DEF PgLive
  <1>3. x \in PgTxs /\ x.pc = "requeue" /\ x.task = t /\ x.set = PgLive(t) /\ x.put = PgIdle.put
    BY <1>2, PgIdleTyped DEF PgTxs
  <1> HIDE DEF x
  <1> QED BY <1>1, <1>2, <1>3, PgIdleFields, PgScanStep DEF PgScheduling

(* trigger_pending_tasks: its read. *)
LEMMA PgTriggerReadStep ==
  ASSUME PgInv, NEW c \in PgCallers, pg_trigger_read(c)
  PROVE  PgInv' /\ PgEffect
  <1> DEFINE due == {<<t, pgRow[t].deps>> : t \in {u \in PgTasks : pgRow[u].st = "pending"}}
             x == [PgIdle EXCEPT !.pc = "trigger", !.set = due]
  <1>1. PgMovesTo(c, x)
    BY DEF pg_trigger_read, PgGoto, PgMovesTo
  <1>2. due \subseteq PgPairs
    <2>1. \A t \in PgTasks : pgRow[t].deps \in SUBSET PgTasks
      BY DEF PgInv, PgTypeOK, PgRows
    <2> QED BY <2>1 DEF PgPairs
  <1> HIDE DEF due
  <1>3. x \in PgTxs /\ x.pc = "trigger" /\ x.set = due /\ x.put = PgIdle.put
    BY <1>2, PgIdleTyped DEF PgTxs
  <1> HIDE DEF x
  <1> QED BY <1>1, <1>2, <1>3, PgIdleFields, PgScanStep DEF PgScheduling

(* trigger_pending_tasks: one row. *)
LEMMA PgTriggerRowStep ==
  ASSUME PgInv, NEW c \in PgCallers, pg_trigger_row(c)
  PROVE  PgInv' /\ PgEffect
  <1>1. pgTx[c] \in PgTxs /\ pgTx[c].pc = "trigger" /\ pgTx[c].set \subseteq PgPairs
        /\ DOMAIN pgTx[c].put = {}
    <2>1. pgTx[c] \in PgTxs /\ pgTx[c].pc = "trigger"
      BY DEF pg_trigger_row, PgInv, PgTypeOK
    <2> QED BY <2>1 DEF PgInv, PgCallerOK, PgSetOK, PgPutsReady
  <1>2. PICK p \in pgTx[c].set, b \in BOOLEAN :
          PgMovesTo(c, IF b THEN [pgTx[c] EXCEPT !.pc = "promote", !.task = p[1], !.set = pgTx[c].set \ {p}]
                       ELSE IF pgTx[c].set \ {p} = {} THEN PgIdle
                       ELSE [pgTx[c] EXCEPT !.set = pgTx[c].set \ {p}])
    BY DEF pg_trigger_row, PgGoto, PgMovesTo
  <1>3. p[1] \in PgTasks
    BY <1>1, <1>2 DEF PgPairs
  <1>4. CASE b
    <2> DEFINE x == [pgTx[c] EXCEPT !.pc = "promote", !.task = p[1], !.set = pgTx[c].set \ {p}]
    <2>1. x \in PgTxs /\ x.pc = "promote" /\ x.task = p[1] /\ x.set = pgTx[c].set \ {p} /\ x.put = pgTx[c].put
      BY <1>1, <1>3 DEF PgTxs
    <2>2. PgMovesTo(c, x)
      BY <1>2, <1>4
    <2> HIDE DEF x
    <2> QED BY <1>1, <1>3, <2>1, <2>2, PgScanStep DEF PgScheduling
  <1>5. CASE ~b /\ pgTx[c].set \ {p} = {}
    BY <1>2, <1>5, PgEndStep
  <1>6. CASE ~b /\ pgTx[c].set \ {p} # {}
    <2> DEFINE x == [pgTx[c] EXCEPT !.set = pgTx[c].set \ {p}]
    <2>1. x \in PgTxs /\ x.pc = "trigger" /\ x.set = pgTx[c].set \ {p} /\ x.put = pgTx[c].put
      BY <1>1 DEF PgTxs
    <2>2. PgMovesTo(c, x)
      BY <1>2, <1>6
    <2> HIDE DEF x
    <2> QED BY <1>1, <2>1, <2>2, PgScanStep DEF PgScheduling
  <1> QED BY <1>4, <1>5, <1>6

----------------------------------------------------------------------------
(* Statements that write a row and move their caller. *)
LEMMA PgPromoteStep ==
  ASSUME PgInv, NEW c \in PgCallers, pg_trigger_pending_tasks(c)
  PROVE  PgInv' /\ PgEffect
  <1> DEFINE t == pgTx[c].task
             x == IF pgTx[c].set = {} THEN PgIdle ELSE [pgTx[c] EXCEPT !.pc = "trigger"]
             row == [pgRow[t] EXCEPT !.st = "ready"]
  <1>1. /\ pgTx[c] \in PgTxs /\ t \in PgTasks /\ pgTx[c].set \subseteq PgPairs
        /\ DOMAIN pgTx[c].put = {} /\ pgTx[c].pc = "promote"
    <2>1. pgTx[c] \in PgTxs /\ pgTx[c].pc = "promote"
      BY DEF pg_trigger_pending_tasks, PgInv, PgTypeOK
    <2> QED BY <2>1 DEF PgInv, PgCallerOK, PgSetOK, PgPutsReady
  <1>2. /\ pgTx' = [pgTx EXCEPT ![c] = x] /\ UNCHANGED <<pgLease, pgUp, pgClaimed>> /\ ~PgRowLocked(t)
        /\ pgRow' = IF pgRow[t].st = "pending" THEN [pgRow EXCEPT ![t] = row] ELSE pgRow
    BY DEF pg_trigger_pending_tasks, PgGoto, PgInv, PgTypeOK
  <1>3. /\ x \in PgTxs /\ x.pc \in {"idle", "trigger"} /\ DOMAIN x.put = {}
        /\ x.pc = "trigger" => x.set \subseteq PgPairs
    BY <1>1, PgIdleTyped, PgIdleFields DEF PgTxs
  <1> HIDE DEF x
  <1>4. CASE pgRow[t].st # "pending"
    <2>1. PgMovesTo(c, x)
      BY <1>2, <1>4 DEF PgMovesTo
    <2> QED BY <1>3, <2>1, PgScanStep DEF PgScheduling
  <1>5. CASE pgRow[t].st = "pending"
    <2>1. row \in PgRows /\ row.st = "ready" /\ row.node = pgRow[t].node
      BY <1>1 DEF PgInv, PgTypeOK, PgRows, PgStatuses
    <2>2. pgTx' \in [PgCallers -> PgTxs] /\ pgTx'[c] = x
          /\ \A d \in PgCallers \ {c} : pgTx'[d] = pgTx[d]
      BY <1>2, <1>3 DEF PgInv, PgTypeOK
    <2> HIDE DEF t, row
    <2>3. pgRow' = [pgRow EXCEPT ![t] = row]
      BY <1>2, <1>5
    <2>a. /\ t \in PgTasks /\ PgTypeOK /\ ~PgRowLocked(t)
          /\ UNCHANGED <<pgLease, pgUp>> /\ pgClaimed' = pgClaimed /\ pgClaimed \subseteq PgTasks
      BY <1>1, <1>2 DEF PgInv, PgTypeOK
    <2>4. PgTypeOK' /\ PgQuiet /\ \A d \in PgCallers : PgKeeps(d)
      BY <2>a, <2>1, <2>2, <2>3, PgRowWriteQuiet
    <2>5. PgAdmits
      BY <1>1, <1>2, <1>5, <2>1, <2>3 DEF PgAdmits, PgSame, PgInv, PgTypeOK
    <2>6. PgCallerOK(c)'
      BY <1>3, <2>2 DEF PgCallerOK, PgSetOK, PgPutsReady, PgCountsBound, PgBarsLeased, PgRequeueOK,
                PgReadLeases
    <2> QED BY <1>3, <2>2, <2>4, <2>5, <2>6, PgMoveStep DEF PgEffect, PgScheduling
  <1> QED BY <1>4, <1>5

(* unassign_task: its write. *)
LEMMA PgUnassignStep ==
  ASSUME PgInv, NEW c \in PgCallers, pg_unassign_task(c)
  PROVE  PgInv' /\ PgEffect
  <1> DEFINE t == pgTx[c].task
             row == [pgRow[t] EXCEPT !.st = "ready", !.node = PgNobody]
  <1>1. t \in PgTasks /\ pgRow[t].st # "none"
    BY DEF pg_unassign_task, PgInv, PgCallerOK, PgSetOK
  <1>2. /\ pgTx' = [pgTx EXCEPT ![c] = PgIdle] /\ UNCHANGED <<pgLease, pgUp, pgClaimed>> /\ ~PgRowLocked(t)
        /\ pgRow' = IF pgRow[t].st \in PgTerminal THEN pgRow ELSE [pgRow EXCEPT ![t] = row]
    BY DEF pg_unassign_task, PgGoto, PgInv, PgTypeOK
  <1>3. CASE pgRow[t].st \in PgTerminal
    BY <1>2, <1>3, PgEndStep DEF PgMovesTo
  <1>4. CASE pgRow[t].st \notin PgTerminal
    <2>1. row \in PgRows /\ row.st = "ready" /\ row.node = PgNobody
      <3>1. pgRow[t] \in PgRows
        BY <1>1 DEF PgInv, PgTypeOK
      <3> QED BY <3>1 DEF PgRows, PgStatuses
    <2>2. pgTx' \in [PgCallers -> PgTxs] /\ pgTx'[c] = PgIdle
          /\ \A d \in PgCallers \ {c} : pgTx'[d] = pgTx[d]
      BY <1>2, PgIdleTyped DEF PgInv, PgTypeOK
    <2> HIDE DEF t, row
    <2>3. pgRow' = [pgRow EXCEPT ![t] = row]
      BY <1>2, <1>4
    <2>a. /\ t \in PgTasks /\ PgTypeOK /\ ~PgRowLocked(t)
          /\ UNCHANGED <<pgLease, pgUp>> /\ pgClaimed' = pgClaimed /\ pgClaimed \subseteq PgTasks
      BY <1>1, <1>2 DEF PgInv, PgTypeOK
    <2>4. PgTypeOK' /\ PgQuiet /\ \A d \in PgCallers : PgKeeps(d)
      BY <2>a, <2>1, <2>2, <2>3, PgRowWriteQuiet
    <2>5. PgYields(t)
      BY <1>1, <1>2, <1>4, <2>1, <2>3 DEF PgYields, PgSame, PgInv, PgTypeOK
    <2>6. PgCallerOK(c)'
      BY <2>2, PgIdleOK
    <2> QED BY <1>1, <2>2, <2>4, <2>5, <2>6, PgIdleFields, PgMoveStep DEF PgEffect, PgScheduling
  <1> QED BY <1>3, <1>4

(* requeue_task: its write. *)
LEMMA PgRequeueStep ==
  ASSUME PgInv, NEW c \in PgCallers, pg_requeue_task(c)
  PROVE  PgInv' /\ PgEffect
  <1> DEFINE t == pgTx[c].task
             L == pgTx[c].set
             row == [pgRow[t] EXCEPT !.st = "ready", !.node = PgNobody, !.attempts = @ + 1]
             stop == pgRow[t].st \in PgTerminal \/ pgRow[t].attempts >= PgRetryLimit
  <1>1. /\ t \in PgTasks /\ pgRow[t].st # "none" /\ pgTx[c].pc = "requeue" /\ L \subseteq PgSlots
        /\ \A l \in L : pgLease[l].task = t
    BY DEF pg_requeue_task, PgInv, PgCallerOK, PgSetOK, PgRequeueOK
  <1>2. /\ pgTx' = [pgTx EXCEPT ![c] = PgIdle] /\ UNCHANGED <<pgUp, pgClaimed>> /\ ~PgRowLocked(t)
        /\ pgLease' = [l \in PgSlots |-> IF l \in L THEN PgFree ELSE pgLease[l]]
        /\ pgRow' = IF stop THEN pgRow ELSE [pgRow EXCEPT ![t] = row]
    BY DEF pg_requeue_task, PgGoto, PgInv, PgTypeOK
  <1>3. row \in PgRows /\ row.st = "ready" /\ row.node = PgNobody
    <2>1. pgRow[t] \in PgRows
      BY <1>1 DEF PgInv, PgTypeOK
    <2> DEFINE k == pgRow[t].attempts + 1
    <2>2. k \in Nat
      BY <2>1 DEF PgRows
    <2> HIDE DEF k
    <2>3. /\ [pgRow[t] EXCEPT !.st = "ready", !.node = PgNobody, !.attempts = k] \in PgRows
          /\ [pgRow[t] EXCEPT !.st = "ready", !.node = PgNobody, !.attempts = k].st = "ready"
          /\ [pgRow[t] EXCEPT !.st = "ready", !.node = PgNobody, !.attempts = k].node = PgNobody
      BY <2>1, <2>2 DEF PgRows, PgStatuses
    <2>4. row = [pgRow[t] EXCEPT !.st = "ready", !.node = PgNobody, !.attempts = k]
      BY DEF k
    <2> QED BY <2>3, <2>4
  <1>4. /\ pgTx' \in [PgCallers -> PgTxs] /\ pgTx'[c] = PgIdle
        /\ \A d \in PgCallers \ {c} : pgTx'[d] = pgTx[d]
    BY <1>2, PgIdleTyped DEF PgInv, PgTypeOK
  <1> HIDE DEF row, stop
  <1>5. /\ \A l \in PgSlots : pgLease'[l] = IF l \in L THEN PgFree ELSE pgLease[l]
        /\ pgLease' \in [PgSlots -> PgLeaseRows]
    BY <1>2, PgFreeTyped DEF PgInv, PgTypeOK
  <1>6. /\ pgRow' \in [PgTasks -> PgRows]
        /\ \A u \in PgTasks : pgRow'[u] = IF ~stop /\ u = t THEN row ELSE pgRow[u]
    BY <1>1, <1>2, <1>3 DEF PgInv, PgTypeOK
  <1>7. PgTypeOK'
    BY <1>2, <1>4, <1>5, <1>6 DEF PgInv, PgTypeOK
  <1>8. PgQuiet
    BY <1>2, <1>3, <1>5, <1>6, PgFreeTyped DEF PgQuiet
  <1>9. ASSUME NEW d \in PgCallers \ {c}
        PROVE  PgKeeps(d)
    <2> SUFFICES ASSUME pgTx[d].pc = "requeue", NEW l \in pgTx[d].set
                 PROVE  pgLease'[l].task = pgLease[l].task
      BY DEF PgKeeps
    <2>1. l \in PgSlots
      BY DEF PgInv, PgCallerOK, PgSetOK
    <2>2. l \notin L
      BY <1>1 DEF PgInv, PgRequeuesApart
    <2> QED BY <1>5, <2>1, <2>2
  <1>10. PgInv'
    BY <1>4, <1>7, <1>8, <1>9, PgIdleOK, PgIdleFields, PgMoveStep DEF PgScheduling
  <1>11. CASE stop
    BY <1>2, <1>5, <1>10, <1>11, PgFreeTyped DEF PgEffect, PgDrops
  <1>12. CASE ~stop
    <2>1. PgYields(t)
      BY <1>1, <1>2, <1>3, <1>5, <1>6, <1>12, PgFreeTyped DEF PgYields, PgSame, stop
    <2> QED BY <1>1, <1>10, <2>1 DEF PgEffect
  <1> QED BY <1>11, <1>12

----------------------------------------------------------------------------
(* The statements of a pass. *)

(* c goes on with its pass, or begins one while there is none, and what it *)
(* then knows is right.                                                    *)
LEMMA PgPassStep ==
  ASSUME PgInv, NEW c \in PgCallers, NEW x \in PgTxs, PgMovesTo(c, x), x.pc \in PgScheduling,
         \/ pgTx[c].pc \in PgScheduling
         \/ \A d \in PgCallers : pgTx[d].pc \notin PgScheduling,
         x.pc = "assign" =>
            /\ x.set \subseteq PgTasks /\ x.set \cap x.barred = {}
            /\ DOMAIN x.put \cap x.barred = {},
         \A t \in DOMAIN x.put : x.pc = "assign" /\ pgRow[t].st = "ready",
         x.pc # "counts" => \A n \in PgNodes :
            /\ Cardinality(PgRunning(n)) + Cardinality({t \in DOMAIN x.put : x.put[t] = n}) <= x.counts[n]
            /\ {t \in DOMAIN x.put : x.put[t] = n} # {} => x.counts[n] <= PgCap[n],
         x.pc \in PgReadLeases => PgBars(x)
  PROVE  PgInv' /\ PgEffect
  <1>1. pgTx'[c] = x /\ UNCHANGED <<pgRow, pgLease>>
    BY PgMoves DEF PgMovesTo
  <1>2. PgSetOK(c)' /\ PgPutsReady(c)' /\ PgRequeueOK(c)'
    BY <1>1 DEF PgSetOK, PgPutsReady, PgRequeueOK, PgScheduling
  <1>3. \A n \in PgNodes : /\ PgRunning(n)' = PgRunning(n)
                          /\ PgPutOn(c, n)' = {t \in DOMAIN x.put : x.put[t] = n}
    BY <1>1 DEF PgRunning, PgPutOn, PgMovesTo
  <1>4. PgCountsBound(c)'
    BY <1>1, <1>3 DEF PgCountsBound
  <1>5. PgBarsLeased(c)'
    <2>1. PgBars(x)' <=> PgBars(x)
      BY <1>1 DEF PgBars, PgLive
    <2> QED BY <1>1, <2>1 DEF PgBarsLeased, PgReadLeases
  <1>6. PgCallerOK(c)'
    BY <1>2, <1>4, <1>5 DEF PgCallerOK
  <1> QED BY <1>1, <1>6, PgMoves, PgMoveStep DEF PgScheduling

(* A pass takes the advisory lock. *)
LEMMA PgLockStep ==
  ASSUME PgInv, NEW c \in PgCallers, pg_schedule_lock(c)
  PROVE  PgInv' /\ PgEffect
  <1> DEFINE x == [PgIdle EXCEPT !.pc = "counts", !.nodes = pgUp]
  <1>1. PgMovesTo(c, x) /\ \A d \in PgCallers : pgTx[d].pc \notin PgScheduling
    BY DEF pg_schedule_lock, PgGoto, PgMovesTo
  <1>2. x \in PgTxs /\ x.pc = "counts" /\ x.put = PgIdle.put
    BY PgIdleTyped DEF PgTxs, PgScheduling, PgInv, PgTypeOK
  <1> HIDE DEF x
  <1> QED BY <1>1, <1>2, PgIdleFields, PgPassStep DEF PgScheduling, PgReadLeases

(* What is known of a pass before it assigns. *)
LEMMA PgPassFacts ==
  ASSUME PgInv, NEW c \in PgCallers, pgTx[c].pc \in PgScheduling
  PROVE  /\ pgTx[c] \in PgTxs
         /\ pgTx[c].pc # "assign" => DOMAIN pgTx[c].put = {}
         /\ \A t \in DOMAIN pgTx[c].put : pgRow[t].st = "ready"
         /\ pgTx[c].pc # "counts" => \A n \in PgNodes :
              /\ Cardinality(PgRunning(n)) + Cardinality({t \in DOMAIN pgTx[c].put : pgTx[c].put[t] = n})
                    <= pgTx[c].counts[n]
              /\ {t \in DOMAIN pgTx[c].put : pgTx[c].put[t] = n} # {} => pgTx[c].counts[n] <= PgCap[n]
         /\ pgTx[c].pc \in PgReadLeases => PgBars(pgTx[c])
  <1>1. PgCallerOK(c) /\ pgTx[c] \in PgTxs
    BY DEF PgInv, PgTypeOK
  <1>2. PgPutsReady(c) /\ PgCountsBound(c) /\ PgBarsLeased(c)
    BY <1>1 DEF PgCallerOK
  <1> QED BY <1>1, <1>2 DEF PgPutsReady, PgCountsBound, PgBarsLeased, PgPutOn, PgScheduling

(* A pass reads the nodes' counts. *)
LEMMA PgCountsStep ==
  ASSUME PgInv, NEW c \in PgCallers, pg_active_counts(c)
  PROVE  PgInv' /\ PgEffect
  <1> DEFINE k == [n \in PgNodes |-> Cardinality({t \in PgTasks :
                        pgRow[t].st = "running" /\ pgRow[t].node = n})]
             x == [pgTx[c] EXCEPT !.pc = "leased", !.counts = k]
  <1>1. PgMovesTo(c, x) /\ pgTx[c].pc = "counts" /\ pgTx[c].pc \in PgScheduling
    BY DEF pg_active_counts, PgGoto, PgMovesTo, PgScheduling
  <1>2. ASSUME NEW n \in PgNodes
        PROVE  Cardinality(PgRunning(n)) <= k[n] /\ Cardinality(PgRunning(n)) \in Nat /\ k[n] \in Nat
    <2> DEFINE all == {t \in PgTasks : pgRow[t].st = "running" /\ pgRow[t].node = n}
    <2>1. k[n] = Cardinality(all)
      OBVIOUS
    <2>2. PgRunning(n) \subseteq all /\ all \in SUBSET PgTasks
      BY DEF PgRunning
    <2> HIDE DEF k, all
    <2>3. IsFiniteSet(all) /\ Cardinality(all) \in Nat
      BY <2>2, PgTasksFinite
    <2>4. Cardinality(PgRunning(n)) <= Cardinality(all) /\ Cardinality(PgRunning(n)) \in Nat
      BY <2>2, <2>3, FS_Subset, FS_CardinalityType
    <2> QED BY <2>1, <2>3, <2>4
  <1>3. k \in [PgNodes -> Nat]
    BY <1>2
  <1> HIDE DEF k
  <1>4. pgTx[c] \in PgTxs /\ DOMAIN pgTx[c].put = {}
    BY <1>1, PgPassFacts
  <1>5. x \in PgTxs /\ x.pc = "leased" /\ x.counts = k /\ x.put = pgTx[c].put
    BY <1>3, <1>4 DEF PgTxs, PgScheduling
  <1> HIDE DEF x
  <1>6. \A n \in PgNodes : {t \in DOMAIN x.put : x.put[t] = n} = {}
    BY <1>4, <1>5
  <1>7. \A n \in PgNodes :
          Cardinality(PgRunning(n)) + Cardinality({t \in DOMAIN x.put : x.put[t] = n}) <= x.counts[n]
    <2> TAKE n \in PgNodes
    <2>1. Cardinality({t \in DOMAIN x.put : x.put[t] = n}) = 0
      BY <1>6, FS_EmptySet
    <2>2. /\ Cardinality(PgRunning(n)) <= x.counts[n]
          /\ Cardinality(PgRunning(n)) \in Nat /\ x.counts[n] \in Nat
      BY <1>2, <1>5
    <2> QED BY <2>1, <2>2
  <1> QED BY <1>1, <1>4, <1>5, <1>6, <1>7, PgPassStep DEF PgScheduling, PgReadLeases

(* A pass reads which tasks have a live lease. *)
LEMMA PgLeasedStep ==
  ASSUME PgInv, NEW c \in PgCallers, pg_leased(c)
  PROVE  PgInv' /\ PgEffect
  <1> DEFINE b == {t \in PgTasks : PgLive(t) # {}}
             x == [pgTx[c] EXCEPT !.pc = "lanes", !.barred = b]
  <1>1. PgMovesTo(c, x) /\ pgTx[c].pc = "leased" /\ pgTx[c].pc \in PgScheduling
    BY DEF pg_leased, PgGoto, PgMovesTo, PgScheduling
  <1>2. b \in SUBSET PgTasks /\ \A t \in PgTasks : PgLive(t) # {} => t \in b
    OBVIOUS
  <1> HIDE DEF b
  <1>3. /\ x \in PgTxs /\ x.pc = "lanes" /\ x.barred = b
        /\ x.put = pgTx[c].put /\ x.counts = pgTx[c].counts /\ x.lent = pgTx[c].lent
    BY <1>1, <1>2, PgPassFacts DEF PgTxs, PgScheduling
  <1> HIDE DEF x
  <1>4. DOMAIN x.put = {} /\ x.pc \in PgScheduling
    BY <1>1, <1>3, PgPassFacts DEF PgScheduling
  <1>5. \A n \in PgNodes :
          /\ Cardinality(PgRunning(n)) + Cardinality({t \in DOMAIN x.put : x.put[t] = n}) <= x.counts[n]
          /\ {t \in DOMAIN x.put : x.put[t] = n} # {} => x.counts[n] <= PgCap[n]
    BY <1>1, <1>3, PgPassFacts
  <1>6. PgBars(x)
    BY <1>2, <1>3 DEF PgBars
  <1> QED BY <1>1, <1>3, <1>4, <1>5, <1>6, PgPassStep

(* A pass reads which lanes are busy. *)
LEMMA PgLanesStep ==
  ASSUME PgInv, NEW c \in PgCallers, pg_lane_blocked(c)
  PROVE  PgInv' /\ PgEffect
  <1>1. PICK B \in SUBSET PgTasks :
          PgMovesTo(c, [pgTx[c] EXCEPT !.pc = "ready", !.barred = @ \cup B])
    <2> DEFINE ready == {t \in PgTasks : pgRow[t].st = "ready"}
    <2>1. PICK first :
            /\ PgGoto(c, [pgTx[c] EXCEPT !.pc = "ready", !.barred = @ \cup (ready \ first)])
            /\ UNCHANGED <<pgRow, pgLease, pgUp, pgClaimed>>
      BY DEF pg_lane_blocked
    <2>2. ready \ first \in SUBSET PgTasks
      OBVIOUS
    <2> HIDE DEF ready
    <2> QED BY <2>1, <2>2 DEF PgGoto, PgMovesTo
  <1> DEFINE x == [pgTx[c] EXCEPT !.pc = "ready", !.barred = @ \cup B]
  <1>2. pgTx[c].pc = "lanes" /\ pgTx[c].pc \in PgScheduling
    BY DEF pg_lane_blocked, PgScheduling
  <1>3. /\ x \in PgTxs /\ x.pc = "ready" /\ x.barred = pgTx[c].barred \cup B
        /\ x.put = pgTx[c].put /\ x.counts = pgTx[c].counts /\ x.lent = pgTx[c].lent
    BY <1>1, <1>2, PgPassFacts DEF PgTxs, PgScheduling
  <1>4. PgMovesTo(c, x)
    BY <1>1
  <1> HIDE DEF x
  <1>5. DOMAIN x.put = {} /\ x.pc \in PgScheduling
    BY <1>2, <1>3, PgPassFacts DEF PgScheduling
  <1>6. \A n \in PgNodes :
          /\ Cardinality(PgRunning(n)) + Cardinality({t \in DOMAIN x.put : x.put[t] = n}) <= x.counts[n]
          /\ {t \in DOMAIN x.put : x.put[t] = n} # {} => x.counts[n] <= PgCap[n]
    BY <1>2, <1>3, PgPassFacts
  <1>7. PgBars(x)
    <2>1. PgBars(pgTx[c])
      BY <1>2, PgPassFacts DEF PgReadLeases
    <2> QED BY <1>3, <2>1 DEF PgBars
  <1> QED BY <1>2, <1>3, <1>4, <1>5, <1>6, <1>7, PgPassStep

(* A pass reads the ready tasks. *)
LEMMA PgReadyStep ==
  ASSUME PgInv, NEW c \in PgCallers, pg_ready_tasks(c)
  PROVE  PgInv' /\ PgEffect
  <1> DEFINE R == {t \in PgTasks : pgRow[t].st = "ready"} \ pgTx[c].barred
             x == [pgTx[c] EXCEPT !.pc = "assign", !.set = R]
  <1>1. PgMovesTo(c, x) /\ pgTx[c].pc = "ready" /\ pgTx[c].pc \in PgScheduling
    BY DEF pg_ready_tasks, PgGoto, PgMovesTo, PgScheduling
  <1>2. R \subseteq PgTasks /\ R \cap pgTx[c].barred = {}
    OBVIOUS
  <1> HIDE DEF R
  <1>3. /\ x \in PgTxs /\ x.pc = "assign" /\ x.set = R /\ x.barred = pgTx[c].barred
        /\ x.put = pgTx[c].put /\ x.counts = pgTx[c].counts /\ x.lent = pgTx[c].lent
    BY <1>1, <1>2, PgPassFacts DEF PgTxs, PgScheduling
  <1> HIDE DEF x
  <1>5. DOMAIN x.put = {} /\ x.pc \in PgScheduling
    BY <1>1, <1>3, PgPassFacts DEF PgScheduling
  <1>6. \A n \in PgNodes :
          /\ Cardinality(PgRunning(n)) + Cardinality({t \in DOMAIN x.put : x.put[t] = n}) <= x.counts[n]
          /\ {t \in DOMAIN x.put : x.put[t] = n} # {} => x.counts[n] <= PgCap[n]
    BY <1>1, <1>3, PgPassFacts
  <1>7. PgBars(x)
    <2>1. PgBars(pgTx[c])
      BY <1>1, PgPassFacts DEF PgReadLeases
    <2> QED BY <1>3, <2>1 DEF PgBars
  <1> QED BY <1>1, <1>2, <1>3, <1>5, <1>6, <1>7, PgPassStep

(* A pass skips a task. *)
LEMMA PgParkStep ==
  ASSUME PgInv, NEW c \in PgCallers, NEW t \in PgTasks,
         pgTx[c].pc = "assign", PgMovesTo(c, [pgTx[c] EXCEPT !.set = @ \ {t}])
  PROVE  PgInv' /\ PgEffect
  <1> DEFINE x == [pgTx[c] EXCEPT !.set = @ \ {t}]
  <1>1. PgMovesTo(c, x) /\ pgTx[c].pc \in PgScheduling
    BY DEF PgScheduling
  <1>2. /\ x \in PgTxs /\ x.pc = "assign" /\ x.set = pgTx[c].set \ {t} /\ x.barred = pgTx[c].barred
        /\ x.put = pgTx[c].put /\ x.counts = pgTx[c].counts /\ x.lent = pgTx[c].lent
    BY <1>1, PgPassFacts DEF PgTxs
  <1> HIDE DEF x
  <1>3. /\ pgTx[c].set \subseteq PgTasks /\ pgTx[c].set \cap pgTx[c].barred = {}
        /\ DOMAIN pgTx[c].put \cap pgTx[c].barred = {}
    BY DEF PgInv, PgCallerOK, PgSetOK, PgBarsLeased
  <1>4. /\ x.pc \in PgScheduling /\ x.set \subseteq PgTasks /\ x.set \cap x.barred = {}
        /\ DOMAIN x.put \cap x.barred = {}
        /\ \A u \in DOMAIN x.put : pgRow[u].st = "ready"
    BY <1>1, <1>2, <1>3, PgPassFacts
  <1>5. \A n \in PgNodes :
          /\ Cardinality(PgRunning(n)) + Cardinality({u \in DOMAIN x.put : x.put[u] = n}) <= x.counts[n]
          /\ {u \in DOMAIN x.put : x.put[u] = n} # {} => x.counts[n] <= PgCap[n]
    BY <1>1, <1>2, PgPassFacts
  <1>6. PgBars(x)
    <2>1. PgBars(pgTx[c])
      BY <1>1, PgPassFacts DEF PgReadLeases
    <2> QED BY <1>2, <2>1 DEF PgBars
  <1> QED BY <1>1, <1>2, <1>4, <1>5, <1>6, PgPassStep

(* A task that is put is counted on its node, and nowhere else. *)
LEMMA PgAssignStep ==
  ASSUME PgInv, NEW c \in PgCallers, NEW t \in PgTasks, NEW n \in PgNodes, pg_assign(c, t, n)
  PROVE  PgInv' /\ PgEffect
  <1>1. CASE pgRow[t].st # "ready"
    BY <1>1, PgParkStep DEF pg_assign, PgGoto, PgMovesTo
  <1>2. CASE pgRow[t].st = "ready"
    <2> DEFINE put == [u \in DOMAIN pgTx[c].put \cup {t} |-> IF u = t THEN n ELSE pgTx[c].put[u]]
               k == [pgTx[c].counts EXCEPT ![n] = pgTx[c].counts[n] + 1]
               x == [pgTx[c] EXCEPT !.set = pgTx[c].set \ {t}, !.counts = k, !.put = put]
    <2>1. /\ pgTx[c].pc = "assign" /\ pgTx[c].pc \in PgScheduling /\ t \in pgTx[c].set
          /\ pgTx[c].counts[n] < PgCap[n] /\ ~PgRowLocked(t)
      BY DEF pg_assign, PgScheduling
    <2>2. /\ pgTx[c] \in PgTxs /\ pgTx[c].counts \in [PgNodes -> Nat]
          /\ pgTx[c].set \in SUBSET (PgTasks \cup PgSlots \cup PgPairs)
      BY <2>1, PgPassFacts DEF PgTxs
    <2>3. PgMovesTo(c, x)
      <3>1. PgGoto(c, [pgTx[c] EXCEPT !.set = @ \ {t}, !.counts[n] = @ + 1,
                         !.put = [u \in DOMAIN @ \cup {t} |-> IF u = t THEN n ELSE @[u]]])
        BY <1>2 DEF pg_assign
      <3>2. [pgTx[c] EXCEPT !.set = @ \ {t}, !.counts[n] = @ + 1,
                         !.put = [u \in DOMAIN @ \cup {t} |-> IF u = t THEN n ELSE @[u]]] = x
        BY <2>2 DEF PgTxs
      <3> QED BY <3>1, <3>2 DEF PgGoto, PgMovesTo, pg_assign
    <2>4. t \notin DOMAIN pgTx[c].put
      BY <2>1 DEF PgRowLocked
    <2>5. put \in PgPuts /\ DOMAIN put = DOMAIN pgTx[c].put \cup {t}
      <3>1. DOMAIN pgTx[c].put \in SUBSET PgTasks /\ pgTx[c].put \in [DOMAIN pgTx[c].put -> PgNodes]
        BY PgPutTyped DEF PgInv
      <3>2. put \in [DOMAIN pgTx[c].put \cup {t} -> PgNodes]
        BY <3>1
      <3> QED BY <3>1, <3>2 DEF PgPuts
    <2>6. k \in [PgNodes -> Nat]
      BY <2>2
    <2>7. ASSUME NEW m \in PgNodes
          PROVE  /\ Cardinality(PgRunning(m)) + Cardinality({u \in DOMAIN put : put[u] = m}) <= k[m]
                 /\ {u \in DOMAIN put : put[u] = m} # {} => k[m] <= PgCap[m]
      <3> DEFINE old == {u \in DOMAIN pgTx[c].put : pgTx[c].put[u] = m}
                 new == {u \in DOMAIN put : put[u] = m}
      <3>1. /\ Cardinality(PgRunning(m)) + Cardinality(old) <= pgTx[c].counts[m]
            /\ old # {} => pgTx[c].counts[m] <= PgCap[m]
        BY <2>1, PgPassFacts
      <3>2. old \in SUBSET PgTasks /\ PgRunning(m) \in SUBSET PgTasks
        BY PgPutTyped DEF PgRunning, PgInv
      <3>3. IsFiniteSet(old) /\ Cardinality(old) \in Nat /\ Cardinality(PgRunning(m)) \in Nat
        BY <3>2, PgTasksFinite
      <3>4. new = IF m = n THEN old \cup {t} ELSE old
        BY <2>4
      <3>5. t \notin old
        BY <2>4
      <3>6. pgTx[c].counts[m] \in Nat /\ PgCap[m] \in Nat
            /\ k[m] = IF m = n THEN pgTx[c].counts[m] + 1 ELSE pgTx[c].counts[m]
        BY <2>2
      <3> HIDE DEF old, new, k
      <3>7. Cardinality(new) = IF m = n THEN Cardinality(old) + 1 ELSE Cardinality(old)
        BY <3>3, <3>4, <3>5, FS_AddElement
      <3>8. Cardinality(PgRunning(m)) + Cardinality(new) <= k[m]
        BY <3>1, <3>3, <3>6, <3>7
      <3>9. new # {} => k[m] <= PgCap[m]
        BY <2>1, <3>1, <3>4, <3>6
      <3> QED BY <3>8, <3>9 DEF new
    <2> HIDE DEF put, k
    <2>8. /\ x \in PgTxs /\ x.pc = "assign" /\ x.set = pgTx[c].set \ {t} /\ x.barred = pgTx[c].barred
          /\ x.put = put /\ x.counts = k /\ x.lent = pgTx[c].lent
      BY <2>1, <2>2, <2>5, <2>6 DEF PgTxs
    <2> HIDE DEF x
    <2>9. /\ pgTx[c].set \subseteq PgTasks /\ pgTx[c].set \cap pgTx[c].barred = {}
          /\ DOMAIN pgTx[c].put \cap pgTx[c].barred = {}
      BY <2>1 DEF PgInv, PgCallerOK, PgSetOK, PgBarsLeased
    <2>10. /\ x.set \subseteq PgTasks /\ x.set \cap x.barred = {} /\ DOMAIN x.put \cap x.barred = {}
      BY <2>1, <2>5, <2>8, <2>9
    <2>11. \A u \in DOMAIN x.put : pgRow[u].st = "ready"
      BY <1>2, <2>1, <2>5, <2>8, PgPassFacts
    <2>12. PgBars(x)
      <3>1. PgBars(pgTx[c])
        BY <2>1, PgPassFacts DEF PgReadLeases
      <3> QED BY <2>8, <3>1 DEF PgBars
    <2>13. x.pc \in PgScheduling
      BY <2>8 DEF PgScheduling
    <2>14. \A m \in PgNodes :
             /\ Cardinality(PgRunning(m)) + Cardinality({u \in DOMAIN x.put : x.put[u] = m}) <= x.counts[m]
             /\ {u \in DOMAIN x.put : x.put[u] = m} # {} => x.counts[m] <= PgCap[m]
      BY <2>7, <2>8
    <2> QED BY <2>1, <2>3, <2>8, <2>10, <2>11, <2>12, <2>13, <2>14, PgPassStep
  <1> QED BY <1>1, <1>2

----------------------------------------------------------------------------
(* The commit. *)

(* As many free rows as tasks: each task can have one of its own. *)
LEMMA PgRowsEnough ==
  ASSUME NEW A, NEW B, IsFiniteSet(A), IsFiniteSet(B), Cardinality(A) <= Cardinality(B)
  PROVE  \E s \in [A -> B] : \A t, u \in A : t # u => s[t] # s[u]
  <1>1. PICK f \in Bijection(1..Cardinality(A), A) : TRUE
    BY FS_CardinalityType DEF ExistsBijection
  <1>2. PICK g \in Bijection(1..Cardinality(B), B) : TRUE
    BY FS_CardinalityType DEF ExistsBijection
  <1>3. Cardinality(A) \in Nat /\ Cardinality(B) \in Nat
    BY FS_CardinalityType
  <1> DEFINE at == [a \in A |-> CHOOSE i \in 1..Cardinality(A) : f[i] = a]
             s == [a \in A |-> g[at[a]]]
  <1>4. ASSUME NEW a \in A
        PROVE  at[a] \in 1..Cardinality(A) /\ f[at[a]] = a /\ at[a] \in 1..Cardinality(B)
    <2>1. \E i \in 1..Cardinality(A) : f[i] = a
      BY DEF Bijection, Surjection
    <2>2. at[a] \in 1..Cardinality(A) /\ f[at[a]] = a
      BY <2>1
    <2> HIDE DEF at
    <2> QED BY <1>3, <2>2
  <1>5. /\ \A i \in 1..Cardinality(B) : g[i] \in B
        /\ \A i, j \in 1..Cardinality(B) : g[i] = g[j] => i = j
    <2>1. g \in Injection(1..Cardinality(B), B)
      BY DEF Bijection
    <2>2. g \in [1..Cardinality(B) -> B] /\ \A i, j \in 1..Cardinality(B) : g[i] = g[j] => i = j
      BY <2>1 DEF Injection, IsInjective
    <2> QED BY <2>2
  <1> HIDE DEF at
  <1>6. s \in [A -> B]
    BY <1>4, <1>5
  <1>7. ASSUME NEW t \in A, NEW u \in A, t # u
        PROVE  s[t] # s[u]
    <2>1. s[t] = g[at[t]] /\ s[u] = g[at[u]]
      OBVIOUS
    <2>2. at[t] # at[u]
      BY <1>4, <1>7
    <2> QED BY <1>4, <1>5, <2>1, <2>2
  <1> HIDE DEF s
  <1> QED BY <1>6, <1>7

(* What a commit does: it starts tasks that are still ready, that no pass  *)
(* has leased, and no more of them than their nodes have room for.         *)
LEMMA PgCommitStarts ==
  ASSUME PgInv, NEW c \in PgCallers, pg_schedule_commit(c)
  PROVE  /\ DOMAIN pgTx[c].put \in SUBSET PgTasks
         /\ pgTx[c].put \in [DOMAIN pgTx[c].put -> PgNodes]
         /\ PgStarts(DOMAIN pgTx[c].put, pgTx[c].put)
         /\ pgLease' = [l \in PgSlots |-> pgLease'[l]]
  <1> DEFINE put == pgTx[c].put
             S == DOMAIN pgTx[c].put
             free == {l \in PgSlots : pgLease[l] = PgFree}
  <1>1. S \in SUBSET PgTasks /\ put \in [S -> PgNodes]
    BY PgPutTyped DEF PgInv
  <1>2. pgTx[c].pc = "assign" /\ pgTx[c].pc \in PgScheduling /\ Cardinality(S) <= Cardinality(free)
    BY DEF pg_schedule_commit, PgScheduling
  <1>3. \A t \in S : pgRow[t].st = "ready" /\ \A l \in PgLive(t) : ~pgLease[l].passed
    <2>1. \A t \in S : pgRow[t].st = "ready" /\ t \notin pgTx[c].barred
      BY <1>2 DEF PgInv, PgCallerOK, PgPutsReady, PgBarsLeased
    <2>2. PgBars(pgTx[c])
      BY <1>2, PgPassFacts DEF PgReadLeases
    <2> QED BY <1>1, <2>1, <2>2 DEF PgBars
  <1>4. ASSUME NEW n \in PgNodes, Cardinality({t \in S : put[t] = n}) > 0
        PROVE  Cardinality(PgRunning(n)) + Cardinality({t \in S : put[t] = n}) <= PgCap[n]
    <2> DEFINE on == {t \in S : put[t] = n}
    <2>1. /\ Cardinality(PgRunning(n)) + Cardinality(on) <= pgTx[c].counts[n]
          /\ on # {} => pgTx[c].counts[n] <= PgCap[n]
      BY <1>2, PgPassFacts
    <2>2. on \in SUBSET PgTasks /\ PgRunning(n) \in SUBSET PgTasks
      BY <1>1 DEF PgRunning
    <2>3. Cardinality(on) \in Nat /\ Cardinality(PgRunning(n)) \in Nat
      BY <2>2, PgTasksFinite
    <2>4. pgTx[c].counts[n] \in Nat /\ PgCap[n] \in Nat
      BY DEF PgInv, PgTypeOK, PgTxs
    <2>5. on # {}
      BY <1>4, FS_EmptySet
    <2> HIDE DEF on
    <2>6. Cardinality(PgRunning(n)) + Cardinality(on) <= PgCap[n]
      BY <2>1, <2>3, <2>4, <2>5
    <2> QED BY <2>6 DEF on
  <1> DEFINE slot == CHOOSE s \in [S -> free] : \A t, u \in S : t # u => s[t] # s[u]
  <1>5. slot \in [S -> free] /\ \A t, u \in S : t # u => slot[t] # slot[u]
    <2>1. IsFiniteSet(S) /\ IsFiniteSet(free)
      BY <1>1, PgTasksFinite, PgSlotsFinite, FS_Subset
    <2>2. \E s \in [S -> free] : \A t, u \in S : t # u => s[t] # s[u]
      BY <1>2, <2>1, PgRowsEnough
    <2> HIDE DEF S, free
    <2> QED BY <2>2
  <1>6. pgLease' = [l \in PgSlots |->
                IF \E t \in S : slot[t] = l
                THEN LET t == CHOOSE u \in S : slot[u] = l
                     IN  [task |-> t, node |-> put[t], live |-> TRUE, passed |-> TRUE]
                ELSE pgLease[l]]
    BY DEF pg_schedule_commit
  <1> HIDE DEF slot
  <1>7. slot \in [S -> PgSlots] /\ \A t \in S : pgLease[slot[t]] = PgFree
    BY <1>5
  <1>8. ASSUME NEW t \in S
        PROVE  pgLease'[slot[t]] = PgLeaseOf(t, put[t])
    <2>1. (CHOOSE u \in S : slot[u] = slot[t]) = t
      BY <1>5, <1>8
    <2> QED BY <1>6, <1>7, <1>8, <2>1 DEF PgLeaseOf
  <1>9. \A l \in PgSlots : pgLease'[l] = pgLease[l] \/ \E t \in S : l = slot[t]
    BY <1>6
  <1>10. pgRow' = [t \in PgTasks |-> IF t \in S
          THEN [pgRow[t] EXCEPT !.st = "running", !.node = put[t]] ELSE pgRow[t]]
    BY DEF pg_schedule_commit
  <1>11. pgClaimed' = pgClaimed \ S
    BY DEF pg_schedule_commit
  <1>12. PgStarts(S, put)
    BY <1>3, <1>4, <1>7, <1>8, <1>9, <1>10, <1>11 DEF PgStarts
  <1> QED BY <1>1, <1>6, <1>12

(* A pass commits: its updates and its leases at once. *)
LEMMA PgCommitStep ==
  ASSUME PgInv, NEW c \in PgCallers, pg_schedule_commit(c)
  PROVE  PgInv' /\ PgEffect
  <1> DEFINE f == pgTx[c].put
             S == DOMAIN pgTx[c].put
  <1>1. S \in SUBSET PgTasks /\ f \in [S -> PgNodes] /\ PgStarts(S, f)
    BY PgCommitStarts
  <1>2. PICK slot \in [S -> PgSlots] :
          /\ \A t \in S : /\ pgLease[slot[t]] = PgFree
                         /\ pgLease'[slot[t]] = PgLeaseOf(t, f[t])
          /\ \A l \in PgSlots : pgLease'[l] = pgLease[l] \/ \E t \in S : l = slot[t]
    BY <1>1 DEF PgStarts
  <1>3. /\ \A t \in S : pgRow[t].st = "ready" /\ \A l \in PgLive(t) : ~pgLease[l].passed
        /\ pgRow' = [t \in PgTasks |-> IF t \in S
              THEN [pgRow[t] EXCEPT !.st = "running", !.node = f[t]] ELSE pgRow[t]]
    BY <1>1 DEF PgStarts
  <1>4. /\ pgTx' = [pgTx EXCEPT ![c] = PgIdle] /\ UNCHANGED pgUp
        /\ pgTx[c].pc = "assign" /\ pgTx[c].pc \in PgScheduling
    BY DEF pg_schedule_commit, PgGoto, PgScheduling
  <1>5. /\ pgTx' \in [PgCallers -> PgTxs] /\ pgTx'[c] = PgIdle
        /\ \A d \in PgCallers \ {c} : pgTx'[d] = pgTx[d] /\ pgTx[d].pc \notin PgScheduling
    BY <1>4, PgIdleTyped DEF PgInv, PgTypeOK, PgOnePass
  <1>6. PgTypeOK'
    <2>1. ASSUME NEW t \in S
          PROVE  [pgRow[t] EXCEPT !.st = "running", !.node = f[t]] \in PgRows
      <3>1. pgRow[t] \in PgRows /\ f[t] \in PgNodes
        BY <1>1, <2>1 DEF PgInv, PgTypeOK
      <3> QED BY <3>1 DEF PgRows, PgStatuses
    <2>2. pgRow' \in [PgTasks -> PgRows]
      BY <1>3, <2>1 DEF PgInv, PgTypeOK
    <2>3. \A t \in S : PgLeaseOf(t, f[t]) \in PgLeaseRows
      BY <1>1 DEF PgLeaseOf, PgLeaseRows
    <2>4. \A l \in PgSlots : pgLease'[l] \in PgLeaseRows
      BY <1>2, <2>3 DEF PgInv, PgTypeOK
    <2>5. pgLease' \in [PgSlots -> PgLeaseRows]
      BY <2>4, PgCommitStarts
    <2>6. pgClaimed' \subseteq PgTasks
      BY <1>1 DEF PgStarts, PgInv, PgTypeOK
    <2> QED BY <1>4, <1>5, <2>2, <2>5, <2>6 DEF PgInv, PgTypeOK
  <1>7. ASSUME NEW d \in PgCallers
        PROVE  PgCallerOK(d)'
    <2>1. CASE d = c
      BY <1>5, <2>1, PgIdleOK
    <2>2. CASE d # c
      <3>1. pgTx'[d] = pgTx[d] /\ pgTx[d].pc \notin PgScheduling /\ PgCallerOK(d)
        BY <1>5, <2>2 DEF PgInv
      <3>2. ASSUME NEW t \in PgTasks, pgRow[t].st # "none"
            PROVE  pgRow'[t].st # "none"
        <4>1. pgRow[t] \in PgRows
          BY DEF PgInv, PgTypeOK
        <4> QED BY <1>3, <3>2, <4>1 DEF PgRows
      <3>3. PgSetOK(d)' /\ PgPutsReady(d)'
        BY <3>1, <3>2 DEF PgCallerOK, PgSetOK, PgPutsReady, PgScheduling
      <3>4. PgCountsBound(d)' /\ PgBarsLeased(d)'
        BY <3>1 DEF PgCountsBound, PgBarsLeased, PgScheduling, PgReadLeases
      <3>5. PgRequeueOK(d)'
        <4> SUFFICES ASSUME pgTx[d].pc = "requeue", NEW l \in pgTx[d].set
                     PROVE  pgLease'[l].task = pgTx[d].task
          BY <3>1 DEF PgRequeueOK
        <4>1. l \in PgSlots /\ pgLease[l].task = pgTx[d].task /\ pgTx[d].task \in PgTasks
          BY <3>1 DEF PgCallerOK, PgRequeueOK, PgSetOK
        <4>2. pgLease[l] # PgFree
          BY <4>1 DEF PgFree, PgNobody
        <4> QED BY <1>2, <4>1, <4>2
      <3> QED BY <3>3, <3>4, <3>5 DEF PgCallerOK
    <2> QED BY <2>1, <2>2
  <1>8. PgOnePass' /\ PgRequeuesApart'
    BY <1>5, PgIdleFields DEF PgInv, PgOnePass, PgRequeuesApart, PgScheduling
  <1>9. PgLeasesApart'
    <2> SUFFICES ASSUME NEW l \in PgSlots, NEW m \in PgSlots, pgLease'[l].live, pgLease'[m].live,
                        pgLease'[l].passed, pgLease'[m].passed, pgLease'[l].task = pgLease'[m].task
                 PROVE  l = m
      BY DEF PgLeasesApart
    <2>1. \A t \in S : pgLease'[slot[t]].task = t
      <3>1. \A t : PgLeaseOf(t, f[t]).task = t
        BY DEF PgLeaseOf
      <3> QED BY <1>2, <3>1
    <2>2. ASSUME NEW t \in S, NEW k \in PgSlots, pgLease'[k].task = t, pgLease'[k].live,
                 pgLease'[k].passed
          PROVE  k = slot[t]
      <3>1. CASE \E u \in S : k = slot[u]
        BY <2>1, <2>2, <3>1
      <3>2. CASE pgLease'[k] = pgLease[k]
        BY <1>3, <2>2, <3>2 DEF PgLive
      <3> QED BY <1>2, <3>1, <3>2
    <2>3. CASE \E t \in S : l = slot[t]
      BY <2>1, <2>2, <2>3
    <2>4. CASE \E t \in S : m = slot[t]
      BY <2>1, <2>2, <2>4
    <2>5. CASE pgLease'[l] = pgLease[l] /\ pgLease'[m] = pgLease[m]
      BY <2>5 DEF PgInv, PgLeasesApart
    <2> QED BY <1>2, <2>3, <2>4, <2>5
  <1>10. PgEffect
    BY <1>1 DEF PgEffect
  <1> QED BY <1>6, <1>7, <1>8, <1>9, <1>10 DEF PgInv

----------------------------------------------------------------------------
(* The invariant holds initially. *)
LEMMA PgInitInv == PgInit => PgInv
  <1> SUFFICES ASSUME PgInit PROVE PgInv
    OBVIOUS
  <1>1. PgTypeOK
    BY PgIdleTyped, PgFreeTyped DEF PgInit, PgTypeOK, PgRows, PgStatuses
  <1>2. \A c \in PgCallers : pgTx[c] = PgIdle
    BY DEF PgInit
  <1>3. \A c \in PgCallers : PgCallerOK(c)
    BY <1>2, PgIdleFields DEF PgCallerOK, PgSetOK, PgPutsReady, PgCountsBound, PgBarsLeased, PgRequeueOK,
                PgReadLeases
  <1>4. PgOnePass /\ PgRequeuesApart
    BY <1>2, PgIdleFields DEF PgOnePass, PgRequeuesApart, PgScheduling
  <1>5. PgLeasesApart
    BY PgFreeTyped DEF PgInit, PgLeasesApart
  <1> QED BY <1>1, <1>3, <1>4, <1>5 DEF PgInv

(* Every step keeps it, and does what the abstract store allows. *)
LEMMA PgNextInv == ASSUME PgInv, PgNext PROVE PgInv' /\ PgEffect
  <1>1. ASSUME NEW c \in PgCallers,
               \/ pg_unassign_task(c) \/ pg_requeue_task(c)
               \/ pg_trigger_read(c) \/ pg_trigger_row(c) \/ pg_trigger_pending_tasks(c)
        PROVE  PgInv' /\ PgEffect
    BY <1>1, PgUnassignStep, PgRequeueStep, PgTriggerReadStep, PgTriggerRowStep, PgPromoteStep
  <1>2. ASSUME NEW c \in PgCallers,
               \/ pg_schedule_lock(c) \/ pg_active_counts(c) \/ pg_leased(c)
               \/ pg_lane_blocked(c) \/ pg_ready_tasks(c) \/ pg_schedule_commit(c)
        PROVE  PgInv' /\ PgEffect
    BY <1>2, PgLockStep, PgCountsStep, PgLeasedStep, PgLanesStep, PgReadyStep, PgCommitStep
  <1>3. ASSUME NEW c \in PgCallers, pg_get_active_leases(c) \/ pg_rollback(c)
        PROVE  PgInv' /\ PgEffect
    BY <1>3, PgSweepStep, PgEndStep DEF pg_rollback, PgGoto, PgMovesTo
  <1>4. ASSUME NEW c \in PgCallers, NEW l \in PgSlots, pg_revoke_lease(c, l)
        PROVE  PgInv' /\ PgEffect
    BY <1>4, PgRevokeStep
  <1>5. ASSUME NEW c \in PgCallers, NEW t \in PgTasks,
               pg_create_task(c, t) \/ pg_unassign_scan(c, t) \/ pg_requeue_scan(c, t)
        PROVE  PgInv' /\ PgEffect
    BY <1>5, PgCreateStep, PgUnassignScanStep, PgRequeueScanStep
  <1>6. ASSUME NEW c \in PgCallers, NEW t \in PgTasks, pg_park(c, t)
        PROVE  PgInv' /\ PgEffect
    BY <1>6, PgParkStep DEF pg_park, PgGoto, PgMovesTo
  <1>7. ASSUME NEW c \in PgCallers, NEW t \in PgTasks,
               \/ \E s \in {"running", "completed", "cancel_requested", "blocked", "ready", "pending"} :
                     pg_set_task_status(c, t, s)
               \/ \E s \in {"ready", "pending"} : pg_unblock(c, t, s)
        PROVE  PgInv' /\ PgEffect
    <2>1. {"completed", "cancel_requested", "blocked", "ready", "pending"}
             \subseteq PgTerminal \cup {"blocked", "ready", "pending"}
      BY DEF PgTerminal
    <2> QED BY <1>7, <2>1, PgStatusStep, PgClaimStep
  <1>8. ASSUME NEW c \in PgCallers, NEW t \in PgTasks,
               pg_set_dependencies(c, t, {}) \/ pg_set_dependencies(c, t, PgDeps[t])
        PROVE  PgInv' /\ PgEffect
    <2>1. PgDeps[t] \in SUBSET PgTasks /\ {} \in SUBSET PgTasks
      OBVIOUS
    <2> QED BY <1>8, <2>1, PgDepsStep
  <1>9. ASSUME NEW c \in PgCallers, NEW t \in PgTasks, NEW n \in PgNodes,
               pg_assign(c, t, n) \/ pg_create_lease(c, t, n)
        PROVE  PgInv' /\ PgEffect
    BY <1>9, PgAssignStep, PgLendStep
  <1>10. ASSUME NEW l \in PgSlots, PgLapse(l)
         PROVE  PgInv' /\ PgEffect
    BY <1>10, PgLapseStep
  <1>11. ASSUME NEW n \in PgNodes, PgNodeFlips(n)
         PROVE  PgInv' /\ PgEffect
    BY <1>11, PgFlipStep
  <1> QED
    BY <1>1, <1>2, <1>3, <1>4, <1>5, <1>6, <1>7, <1>8, <1>9, <1>10, <1>11 DEF PgNext

(* One pass at a time, and what a pass has read still bounds what is there *)
(* when it commits: the inductive invariant of the store.                  *)
THEOREM PgInvHolds == PgSpec => []PgInv
  <1>1. ASSUME PgInv, UNCHANGED pgVars PROVE PgInv'
    <2>1. PgTypeOK' /\ PgQuiet /\ UNCHANGED pgTx /\ \A d \in PgCallers : PgKeeps(d)
      BY <1>1 DEF pgVars, PgInv, PgTypeOK, PgQuiet, PgKeeps
    <2> QED BY <1>1, <2>1, PgStillStep
  <1>2. PgInv /\ [PgNext]_pgVars => PgInv'
    BY <1>1, PgNextInv
  <1> QED BY <1>2, PgInitInv, PTL DEF PgSpec

(* schedule_pending_detailed does not lease a task whose lease is alive    *)
(* (#833), whichever requeue, unassign or second pass overtakes the pass   *)
(* that read it: of the leases of a task that are alive at most one is not *)
(* create_lease's, and those of a task about to be leased came after the   *)
(* leases were read.                                                       *)
THEOREM PgLeasesOnce == PgSpec => []PgOneLiveLease
  <1>1. ASSUME PgInv, NEW t \in PgTasks
        PROVE  Cardinality({l \in PgLive(t) : pgLease[l].passed}) <= 1
    <2> DEFINE P == {l \in PgLive(t) : pgLease[l].passed}
    <2>a. \A l, m \in P : l = m
      BY <1>1 DEF PgInv, PgLeasesApart, PgLive
    <2> SUFFICES Cardinality(P) <= 1
      OBVIOUS
    <2> HIDE DEF P
    <2>1. CASE P = {}
      BY <2>1, FS_EmptySet
    <2>2. CASE P # {}
      <3>1. PICK l \in P : TRUE
        BY <2>2
      <3>2. \A m \in P : m = l
        BY <2>a, <3>1
      <3>3. P = {l}
        BY <3>1, <3>2
      <3>4. Cardinality({l}) = 1
        BY FS_Singleton
      <3> QED BY <3>3, <3>4
    <2> QED BY <2>1, <2>2
  <1>2. ASSUME PgInv, NEW c \in PgCallers, NEW t \in DOMAIN pgTx[c].put, PgLive(t) # {}
        PROVE  t \in pgTx[c].lent
    <2>1. t \in PgTasks /\ pgTx[c].pc = "assign" /\ t \notin pgTx[c].barred
      BY <1>2, PgPutTyped DEF PgInv, PgCallerOK, PgPutsReady, PgBarsLeased
    <2>2. PgBars(pgTx[c])
      BY <1>2, <2>1 DEF PgInv, PgCallerOK, PgBarsLeased, PgReadLeases
    <2> QED BY <1>2, <2>1, <2>2 DEF PgBars
  <1>3. PgInv => PgOneLiveLease
    BY <1>1, <1>2 DEF PgOneLiveLease
  <1> QED BY <1>3, PgInvHolds, PTL

----------------------------------------------------------------------------
(* The refinement: each of the effects is a step of Store. *)
pgStBar == [t \in PgTasks |-> pgRow[t].st]
pgOwnerBar == [t \in PgTasks |-> pgRow[t].node]
pgHeldBar == [t \in PgTasks |-> {pgLease[l].node : l \in PgLive(t)}]

(* Who holds a lease, row by row. *)
LEMMA PgHeldBy ==
  ASSUME NEW t \in PgTasks
  PROVE  /\ \A n : n \in pgHeldBar[t] <=>
                \E l \in PgSlots : pgLease[l].task = t /\ pgLease[l].live /\ pgLease[l].node = n
         /\ \A n : n \in pgHeldBar'[t] <=>
                \E l \in PgSlots : pgLease'[l].task = t /\ pgLease'[l].live /\ pgLease'[l].node = n
  BY DEF pgHeldBar, PgLive

(* Counting is the same in both modules. *)
LEMMA PgCounts == ASSUME NEW S PROVE PgAbstract!Cardinality(S) = Cardinality(S)
  BY DEF PgAbstract!Cardinality, Cardinality

(* Where leases stay, so do the abstract store's. *)
LEMMA PgHeldKept ==
  ASSUME UNCHANGED pgLease
  PROVE  UNCHANGED pgHeldBar
  BY DEF pgHeldBar, PgLive

(* A step that admits is the abstract store's Admit. *)
LEMMA PgAdmitRefines == ASSUME PgTypeOK, PgAdmits PROVE PgAbstract!Admit
  <1>1. UNCHANGED pgHeldBar
    BY PgHeldKept DEF PgAdmits
  <1>2. UNCHANGED pgOwnerBar
    BY DEF PgAdmits, PgSame, pgOwnerBar
  <1>3. \A t \in PgTasks :
          \/ pgStBar'[t] = pgStBar[t]
          \/ pgStBar[t] \in {"none", "pending", "ready"} /\ pgStBar'[t] \in {"pending", "ready"}
    <2>1. \A t \in PgTasks : pgStBar[t] = pgRow[t].st /\ pgStBar'[t] = pgRow'[t].st
      BY DEF pgStBar
    <2> QED BY <2>1 DEF PgAdmits, PgSame
  <1> QED BY <1>1, <1>2, <1>3 DEF PgAdmits, PgAbstract!Admit, pgStBar, pgOwnerBar, pgHeldBar

(* A step that drops leases is its Drop. *)
LEMMA PgDropRefines == ASSUME PgTypeOK, PgDrops PROVE PgAbstract!Drop
  <1>1. ASSUME NEW t \in PgTasks
        PROVE  pgHeldBar'[t] \subseteq pgHeldBar[t]
    BY PgHeldBy DEF PgDrops
  <1>2. UNCHANGED <<pgStBar, pgOwnerBar>>
    BY DEF PgDrops, pgStBar, pgOwnerBar
  <1> QED BY <1>1, <1>2 DEF PgDrops, PgAbstract!Drop, pgStBar, pgOwnerBar, pgHeldBar

(* A step that writes a status is its Write. *)
LEMMA PgWriteRefines ==
  ASSUME PgTypeOK, NEW t \in PgTasks, PgWrites(t)
  PROVE  PgAbstract!Write(t)
  <1>1. UNCHANGED <<pgOwnerBar, pgHeldBar>>
    BY PgHeldKept DEF PgWrites, PgSame, pgOwnerBar
  <1>2. /\ pgStBar[t] # "none" /\ pgRow'[t].st \in PgAbstract!Terminal \cup {"blocked", "ready", "pending"}
        /\ pgStBar' = [pgStBar EXCEPT ![t] = pgRow'[t].st]
    BY DEF PgWrites, PgSame, pgStBar, PgAbstract!Terminal, PgTerminal
  <1> QED BY <1>1, <1>2 DEF PgWrites, PgAbstract!Write, pgStBar, pgOwnerBar, pgHeldBar

(* A write of running is its Claim. *)
LEMMA PgClaimRefines ==
  ASSUME PgTypeOK, NEW t \in PgTasks, PgClaims(t)
  PROVE  PgAbstract!Claim(t)
  <1>1. UNCHANGED <<pgOwnerBar, pgHeldBar>>
    BY PgHeldKept DEF PgClaims, PgSame, pgOwnerBar
  <1>2. pgStBar[t] # "none" /\ pgStBar' = [pgStBar EXCEPT ![t] = "running"]
    BY DEF PgClaims, PgSame, pgStBar
  <1> QED BY <1>1, <1>2 DEF PgClaims, PgAbstract!Claim, pgStBar, pgOwnerBar, pgHeldBar

(* create_lease is its Lend. *)
LEMMA PgLendRefines ==
  ASSUME PgTypeOK, NEW t \in PgTasks, NEW n \in PgNodes, PgLends(t, n)
  PROVE  PgAbstract!Lend(t, n)
  <1>1. PICK l \in PgSlots :
          pgLease[l] = PgFree /\ pgLease' = [pgLease EXCEPT ![l] = PgCallLease(t, n)]
    BY DEF PgLends
  <1>2. /\ PgCallLease(t, n).task = t /\ PgCallLease(t, n).node = n
        /\ PgCallLease(t, n).live /\ ~PgFree.live
    BY DEF PgCallLease, PgFree
  <1>3. \A m \in PgSlots : pgLease'[m] = IF m = l THEN PgCallLease(t, n) ELSE pgLease[m]
    BY <1>1 DEF PgTypeOK
  <1>4. ASSUME NEW u \in PgTasks
        PROVE  pgHeldBar'[u] = IF u = t THEN pgHeldBar[u] \cup {n} ELSE pgHeldBar[u]
    <2>1. \A m \in PgSlots :
            (pgLease'[m].task = u /\ pgLease'[m].live) <=>
                (pgLease[m].task = u /\ pgLease[m].live) \/ (m = l /\ u = t)
      BY <1>1, <1>2, <1>3
    <2>2. \A k : k \in pgHeldBar'[u] <=> k \in pgHeldBar[u] \/ (u = t /\ k = n)
      BY <1>1, <1>2, <1>3, <2>1, PgHeldBy
    <2>3. CASE u = t
      <3>1. \A k : k \in pgHeldBar'[u] <=> k \in pgHeldBar[u] \cup {n}
        BY <2>2, <2>3
      <3>2. pgHeldBar'[u] = pgHeldBar[u] \cup {n}
        BY <3>1
      <3> QED BY <2>3, <3>2
    <2>4. CASE u # t
      <3>1. \A k : k \in pgHeldBar'[u] <=> k \in pgHeldBar[u]
        BY <2>2, <2>4
      <3>2. pgHeldBar'[u] = pgHeldBar[u]
        BY <3>1
      <3> QED BY <2>4, <3>2
    <2> QED BY <2>3, <2>4
  <1>5. pgHeldBar' = [pgHeldBar EXCEPT ![t] = pgHeldBar[t] \cup {n}]
    <2>1. pgHeldBar' = [u \in PgTasks |-> pgHeldBar'[u]] /\ DOMAIN pgHeldBar = PgTasks
      BY DEF pgHeldBar
    <2>2. pgHeldBar' = [u \in PgTasks |-> IF u = t THEN pgHeldBar[u] \cup {n} ELSE pgHeldBar[u]]
      BY <1>4, <2>1
    <2> QED BY <2>1, <2>2
  <1>6. UNCHANGED <<pgStBar, pgOwnerBar>>
    BY DEF PgLends, pgStBar, pgOwnerBar
  <1> QED BY <1>5, <1>6 DEF PgLends, PgAbstract!Lend, pgStBar, pgOwnerBar, pgHeldBar

(* A requeue drops leases of its own task only. *)
LEMMA PgYieldRefines ==
  ASSUME PgTypeOK, NEW t \in PgTasks, PgYields(t)
  PROVE  PgAbstract!Yield(t)
  <1>1. /\ pgStBar[t] \notin PgAbstract!Terminal \cup {"none"}
        /\ pgStBar' = [pgStBar EXCEPT ![t] = "ready"]
        /\ pgOwnerBar' = [pgOwnerBar EXCEPT ![t] = PgAbstract!Nobody]
    BY DEF PgYields, PgSame, pgStBar, pgOwnerBar, PgAbstract!Terminal, PgTerminal,
           PgAbstract!Nobody, PgNobody
  <1>2. \A l \in PgSlots : pgLease'[l] = pgLease[l] \/ (pgLease[l].task = t /\ ~pgLease'[l].live)
    BY DEF PgYields
  <1>3. ASSUME NEW u \in PgTasks
        PROVE  pgHeldBar'[u] \subseteq pgHeldBar[u] /\ (u # t => pgHeldBar'[u] = pgHeldBar[u])
    <2>1. \A n : n \in pgHeldBar'[u] => n \in pgHeldBar[u]
      BY <1>2, PgHeldBy
    <2>2. u # t => \A n : n \in pgHeldBar[u] => n \in pgHeldBar'[u]
      BY <1>2, PgHeldBy
    <2>3. u # t => \A n : n \in pgHeldBar'[u] <=> n \in pgHeldBar[u]
      BY <2>1, <2>2
    <2>4. u # t => pgHeldBar'[u] = pgHeldBar[u]
      BY <2>3
    <2> QED BY <2>1, <2>4
  <1> QED BY <1>1, <1>3 DEF PgYields, PgAbstract!Yield, pgStBar, pgOwnerBar, pgHeldBar

(* A commit is its Place. *)
LEMMA PgPlaceRefines ==
  ASSUME PgTypeOK, NEW S \in SUBSET PgTasks, NEW f \in [S -> PgNodes], PgStarts(S, f)
  PROVE  PgAbstract!Place(S, f)
  <1>1. \A t \in S : pgStBar[t] = "ready"
    BY DEF PgStarts, pgStBar
  <1>2. ASSUME NEW n \in PgNodes
        PROVE  Cardinality(PgRunning(n)) = PgAbstract!Load(n)
    <2>1. PgRunning(n) = {t \in PgTasks \ pgClaimed : pgStBar[t] = "running" /\ pgOwnerBar[t] = n}
      BY DEF pgStBar, pgOwnerBar, PgRunning
    <2>2. PgAbstract!Load(n) = Cardinality({t \in PgTasks \ pgClaimed : pgStBar[t] = "running" /\ pgOwnerBar[t] = n})
      BY PgCounts DEF PgAbstract!Load, pgStBar, pgOwnerBar
    <2> QED BY <2>1, <2>2
  <1>3. \A n \in PgNodes : LET k == PgAbstract!Cardinality({t \in S : f[t] = n})
                          IN  k > 0 => PgAbstract!Load(n) + k <= PgCap[n]
    BY <1>2, PgCounts DEF PgStarts
  <1>4. ASSUME NEW t \in PgTasks
        PROVE  /\ pgRow'[t].st = IF t \in S THEN "running" ELSE pgRow[t].st
               /\ pgRow'[t].node = IF t \in S THEN f[t] ELSE pgRow[t].node
    <2>1. pgRow[t] \in PgRows
      BY DEF PgTypeOK
    <2> QED BY <1>4, <2>1 DEF PgStarts, PgRows
  <1>5. /\ pgStBar' = [t \in PgTasks |-> IF t \in S THEN "running" ELSE pgStBar[t]]
        /\ pgOwnerBar' = [t \in PgTasks |-> IF t \in S THEN f[t] ELSE pgOwnerBar[t]]
    BY <1>4 DEF pgStBar, pgOwnerBar
  <1>6. PICK slot \in [S -> PgSlots] :
          /\ \A t \in S : /\ pgLease[slot[t]] = PgFree
                         /\ pgLease'[slot[t]] = PgLeaseOf(t, f[t])
          /\ \A l \in PgSlots : pgLease'[l] = pgLease[l] \/ \E t \in S : l = slot[t]
    BY DEF PgStarts
  <1>7. ~PgFree.live
    BY DEF PgFree
  <1>8. \A t, n : /\ PgLeaseOf(t, n).task = t /\ PgLeaseOf(t, n).node = n
                 /\ PgLeaseOf(t, n).live
    BY DEF PgLeaseOf
  <1>9. ASSUME NEW t \in PgTasks
        PROVE  pgHeldBar'[t] = IF t \in S THEN pgHeldBar[t] \cup {f[t]} ELSE pgHeldBar[t]
    <2>1. ASSUME NEW l \in PgSlots, pgLease[l].task = t, pgLease[l].live
          PROVE  pgLease'[l] = pgLease[l]
      BY <1>6, <1>7, <2>1
    <2>2. ASSUME NEW l \in PgSlots, pgLease'[l].task = t, pgLease'[l].live
          PROVE  pgLease'[l] = pgLease[l] \/ (t \in S /\ pgLease'[l].node = f[t])
      <3>1. CASE pgLease'[l] # pgLease[l]
        <4>1. PICK v \in S : pgLease'[l] = PgLeaseOf(v, f[v])
          BY <1>6, <3>1
        <4>2. v = t /\ pgLease'[l].node = f[v]
          BY <1>8, <2>2, <4>1
        <4> QED BY <4>2
      <3> QED BY <3>1
    <2>3. t \in S => f[t] \in pgHeldBar'[t]
      BY <1>6, <1>8, PgHeldBy
    <2>4. \A n : n \in pgHeldBar[t] => n \in pgHeldBar'[t]
      BY <2>1, PgHeldBy
    <2>5. \A n : n \in pgHeldBar'[t] => n \in pgHeldBar[t] \/ (t \in S /\ n = f[t])
      BY <2>2, PgHeldBy
    <2>6. CASE t \in S
      <3>1. \A n : n \in pgHeldBar'[t] <=> n \in pgHeldBar[t] \cup {f[t]}
        BY <2>3, <2>4, <2>5, <2>6
      <3>2. pgHeldBar'[t] = pgHeldBar[t] \cup {f[t]}
        BY <3>1
      <3> QED BY <2>6, <3>2
    <2>7. CASE t \notin S
      <3>1. \A n : n \in pgHeldBar'[t] <=> n \in pgHeldBar[t]
        BY <2>4, <2>5, <2>7
      <3>2. pgHeldBar'[t] = pgHeldBar[t]
        BY <3>1
      <3> QED BY <2>7, <3>2
    <2> QED BY <2>6, <2>7
  <1>10. pgHeldBar' = [t \in PgTasks |-> IF t \in S THEN pgHeldBar[t] \cup {f[t]} ELSE pgHeldBar[t]]
    <2>1. pgHeldBar' = [t \in PgTasks |-> pgHeldBar'[t]]
      BY DEF pgHeldBar
    <2> QED BY <1>9, <2>1
  <1> QED BY <1>1, <1>3, <1>5, <1>10 DEF PgStarts, PgAbstract!Place, pgStBar, pgOwnerBar, pgHeldBar

(* The Postgres store implements the atomic one: a commit starts only      *)
(* tasks that are still ready, with their leases, and overfills no node,   *)
(* what was claimed aside, although the pass read loads, leases and lanes  *)
(* statements before and the writers of a status, claims among them, do    *)
(* not take its lock.                                                      *)
THEOREM PgRefinesStore == PgSpec => PgImplementsStore
  <1>1. PgInit => PgAbstract!Init
    <2>1. ASSUME PgInit, NEW t \in PgTasks PROVE pgHeldBar[t] = {}
      BY <2>1, PgHeldBy DEF PgInit, PgFree
    <2>2. ASSUME PgInit
          PROVE  /\ pgStBar = [t \in PgTasks |-> "none"]
                 /\ pgOwnerBar = [t \in PgTasks |-> PgAbstract!Nobody]
                 /\ pgHeldBar = [t \in PgTasks |-> {}]
                 /\ pgClaimed = {}
      <3>1. pgHeldBar = [t \in PgTasks |-> pgHeldBar[t]]
        BY DEF pgHeldBar
      <3> QED BY <2>1, <2>2, <3>1 DEF PgInit, pgStBar, pgOwnerBar, PgAbstract!Nobody, PgNobody
    <2> QED BY <2>2 DEF PgAbstract!Init, pgStBar, pgOwnerBar, pgHeldBar
  <1>2. ASSUME PgInv, [PgNext]_pgVars
        PROVE  [PgAbstract!Next]_<<pgStBar, pgOwnerBar, pgHeldBar, pgClaimed>>
    <2>1. CASE UNCHANGED pgVars
      BY <2>1, PgHeldKept DEF pgVars, pgStBar, pgOwnerBar
    <2>2. CASE PgNext
      <3>1. PgEffect /\ PgTypeOK
        BY <1>2, <2>2, PgNextInv DEF PgInv
      <3> QED
        BY <3>1, PgAdmitRefines, PgDropRefines, PgWriteRefines, PgClaimRefines, PgLendRefines, PgYieldRefines,
           PgPlaceRefines DEF PgEffect, PgAbstract!Next
    <2> QED BY <1>2, <2>1, <2>2
  <1>3. ASSUME PgInv, [PgNext]_pgVars
        PROVE  [PgAbstract!Next]_<<[t \in PgTasks |-> pgRow[t].st],
                                   [t \in PgTasks |-> pgRow[t].node],
                                   [t \in PgTasks |-> {pgLease[l].node : l \in PgLive(t)}],
                                   pgClaimed>>
    BY <1>2, <1>3 DEF pgStBar, pgOwnerBar, pgHeldBar
  <1> QED
    BY <1>1, <1>3, PgInvHolds, PTL DEF PgSpec, PgImplementsStore, PgAbstract!Spec
----------------------------------------------------------------------------
(* The in-memory store *)

MemStatuses == MemTerminal \cup {"none", "pending", "ready", "running", "blocked"}
MemRows == [st : MemStatuses, node : MemNodes \cup {MemNobody},
            deps : SUBSET MemTasks, attempts : Nat]
MemLeaseRows == [task : MemTasks \cup {MemNobody}, node : MemNodes \cup {MemNobody}, live : BOOLEAN]
MemClaiming == {"claim", "take", "lend"}
MemPlaces == {p \in [pc : {"idle", "lookup", "revoke", "leased", "place"} \cup MemClaiming,
                     task : MemTasks \cup {MemNobody}, node : MemNodes \cup {MemNobody},
                     slot : 0..MemLeases, nodes : SUBSET MemNodes, leased : SUBSET MemTasks] :
                p.pc \in MemClaiming => p.task \in MemTasks /\ p.node \in MemNodes}

MemTypeOK ==
    /\ memTask \in [MemTasks -> MemRows]
    /\ memLease \in [MemSlots -> MemLeaseRows]
    /\ memIndex \in [MemTasks -> 0..MemLeases]
    /\ memUp \subseteq MemNodes
    /\ memAt \in [MemThreads -> MemPlaces]
    /\ memClaimed \subseteq MemTasks

HIDE PgAssumption
USE MemAssumption

----------------------------------------------------------------------------
(* What the sections do to each table, stated once: the steps of MemNext   *)
(* are below only known by these.                                          *)

(* A drop frees slots and forgets indices. *)
LEMMA MemDropFrees ==
  ASSUME MemTypeOK, NEW L, MemDrop(L)
  PROVE  /\ memLease' \in [MemSlots -> MemLeaseRows]
         /\ memIndex' \in [MemTasks -> 0..MemLeases]
         /\ \A l \in MemSlots : memLease'[l] = memLease[l] \/ memLease'[l] = MemFree
  <1>1. MemFree \in MemLeaseRows
    BY DEF MemFree, MemLeaseRows
  <1>2. 0 \in 0..MemLeases
    OBVIOUS
  <1> QED BY <1>1, <1>2 DEF MemDrop, MemTypeOK

(* A thread at rest. *)
LEMMA MemIdleOK == MemIdle \in MemPlaces
  BY DEF MemIdle, MemPlaces, MemClaiming

(* Types hold initially. *)
LEMMA MemInitTyped == MemInit => MemTypeOK
  BY MemIdleOK DEF MemInit, MemTypeOK, MemRows, MemLeaseRows, MemFree, MemStatuses

(* The sections that write the row of one task, and start nothing. *)
MemRowWrite(t, row) ==
    /\ memTask' = [memTask EXCEPT ![t] = row]
    /\ UNCHANGED <<memLease, memIndex, memUp>>

(* Types: one task row is written. *)
LEMMA MemRowWriteTyped ==
  ASSUME MemTypeOK, NEW t \in MemTasks, NEW row \in MemRows, MemRowWrite(t, row),
         memAt' \in [MemThreads -> MemPlaces], memClaimed' \subseteq MemTasks
  PROVE  MemTypeOK'
  BY DEF MemTypeOK, MemRowWrite, MemSlots

(* create_task writes a new row. *)
LEMMA MemCreateWrites ==
  ASSUME MemTypeOK, NEW t \in MemTasks, mem_create_task(t)
  PROVE  \E row \in MemRows :
            /\ MemRowWrite(t, row) /\ UNCHANGED <<memAt, memClaimed>>
            /\ memTask[t].st = "none" /\ row.st = "pending" /\ row.node = memTask[t].node
  <1> DEFINE row == [memTask[t] EXCEPT !.st = "pending", !.deps = MemDeps[t]]
  <1>1. memTask[t] \in MemRows
    BY DEF MemTypeOK
  <1>2. row \in MemRows /\ row.st = "pending" /\ row.node = memTask[t].node
    BY <1>1 DEF MemRows, MemStatuses
  <1>3. memTask' = [memTask EXCEPT ![t] = row]
    BY DEF mem_create_task, MemTypeOK
  <1> QED BY <1>2, <1>3 DEF mem_create_task, MemRowWrite

(* set_task_status and its relatives write one row's status. *)
LEMMA MemStatusWrites ==
  ASSUME MemTypeOK, NEW t \in MemTasks, NEW s \in MemStatuses,
         memTask' = [memTask EXCEPT ![t].st = s],
         UNCHANGED <<memLease, memIndex, memUp>>
  PROVE  \E row \in MemRows :
            MemRowWrite(t, row) /\ row.st = s /\ row.node = memTask[t].node
  <1> DEFINE row == [memTask[t] EXCEPT !.st = s]
  <1>1. memTask[t] \in MemRows
    BY DEF MemTypeOK
  <1>2. row \in MemRows /\ row.st = s /\ row.node = memTask[t].node
    BY <1>1 DEF MemRows, MemStatuses
  <1>3. memTask' = [memTask EXCEPT ![t] = row]
    BY DEF MemTypeOK
  <1> QED BY <1>2, <1>3 DEF MemRowWrite

(* set_dependencies leaves status and node. *)
LEMMA MemDepsWrites ==
  ASSUME MemTypeOK, NEW t \in MemTasks, NEW D \in SUBSET MemTasks, mem_set_dependencies(t, D)
  PROVE  \E row \in MemRows :
            /\ MemRowWrite(t, row) /\ UNCHANGED <<memAt, memClaimed>>
            /\ row.st = memTask[t].st /\ row.node = memTask[t].node
  <1> DEFINE row == [memTask[t] EXCEPT !.deps = D]
  <1>1. memTask[t] \in MemRows
    BY DEF MemTypeOK
  <1>2. row \in MemRows /\ row.st = memTask[t].st /\ row.node = memTask[t].node
    BY <1>1 DEF MemRows
  <1>3. memTask' = [memTask EXCEPT ![t] = row]
    BY DEF mem_set_dependencies, MemTypeOK
  <1> QED BY <1>2, <1>3 DEF mem_set_dependencies, MemRowWrite

(* unassign_task and requeue_task: a task that is open goes back to ready, *)
(* owned by nobody.                                                        *)
LEMMA MemUnassignWrites ==
  ASSUME MemTypeOK, NEW t \in MemTasks, mem_unassign_task(t)
  PROVE  \E row \in MemRows :
            /\ MemRowWrite(t, row) /\ UNCHANGED <<memAt, memClaimed>>
            /\ memTask[t].st \notin MemTerminal \cup {"none"}
            /\ row.st = "ready" /\ row.node = MemNobody
  <1> DEFINE row == [memTask[t] EXCEPT !.st = "ready", !.node = MemNobody]
  <1>1. memTask[t] \in MemRows
    BY DEF MemTypeOK
  <1>2. row \in MemRows /\ row.st = "ready" /\ row.node = MemNobody
    BY <1>1 DEF MemRows, MemStatuses
  <1>3. memTask' = [memTask EXCEPT ![t] = row]
    BY DEF mem_unassign_task, MemTypeOK
  <1> QED BY <1>2, <1>3 DEF mem_unassign_task, MemRowWrite

(* requeue_task makes an open task ready and takes it off its node. *)
LEMMA MemRequeueWrites ==
  ASSUME MemTypeOK, NEW h \in MemThreads, NEW t \in MemTasks, mem_requeue_task(h, t)
  PROVE  /\ \E row \in MemRows :
            /\ MemRowWrite(t, row) /\ UNCHANGED memClaimed
            /\ memTask[t].st \notin MemTerminal \cup {"none"}
            /\ row.st = "ready" /\ row.node = MemNobody
         /\ memAt' \in [MemThreads -> MemPlaces]
  <1> DEFINE row == [memTask[t] EXCEPT !.st = "ready", !.node = MemNobody, !.attempts = @ + 1]
             at == [MemIdle EXCEPT !.pc = "lookup", !.task = t]
  <1>1. memTask[t] \in MemRows
    BY DEF MemTypeOK
  <1>2. row \in MemRows /\ row.st = "ready" /\ row.node = MemNobody
    <2> DEFINE k == memTask[t].attempts + 1
    <2>1. k \in Nat
      BY <1>1 DEF MemRows
    <2> HIDE DEF k
    <2>2. [memTask[t] EXCEPT !.st = "ready", !.node = MemNobody, !.attempts = k] \in MemRows
      BY <1>1, <2>1 DEF MemRows, MemStatuses
    <2>3. row = [memTask[t] EXCEPT !.st = "ready", !.node = MemNobody, !.attempts = k]
      BY DEF k
    <2>4. row.st = "ready" /\ row.node = MemNobody
      BY <1>1, <2>3 DEF MemRows
    <2> QED BY <2>2, <2>3, <2>4
  <1>3. memTask' = [memTask EXCEPT ![t] = row]
    BY DEF mem_requeue_task, MemTypeOK
  <1>4. at \in MemPlaces
    BY MemIdleOK DEF MemPlaces, MemClaiming
  <1>5. memAt' \in [MemThreads -> MemPlaces]
    BY <1>4 DEF mem_requeue_task, MemGoto, MemTypeOK
  <1> QED BY <1>2, <1>3, <1>5 DEF mem_requeue_task, MemRowWrite

(* trigger_pending_tasks makes pending tasks ready. *)
LEMMA MemTriggerWrites ==
  ASSUME MemTypeOK, mem_trigger_pending_tasks
  PROVE  /\ MemTypeOK'
         /\ UNCHANGED <<memLease, memClaimed>>
         /\ \A t \in MemTasks :
               /\ memTask'[t].node = memTask[t].node
               /\ \/ memTask'[t].st = memTask[t].st
                  \/ memTask[t].st = "pending" /\ memTask'[t].st = "ready"
  <1>1. ASSUME NEW t \in MemTasks
        PROVE  \/ memTask'[t] = memTask[t]
               \/ memTask[t].st = "pending" /\ memTask'[t] = [memTask[t] EXCEPT !.st = "ready"]
    BY <1>1 DEF mem_trigger_pending_tasks
  <1>2. ASSUME NEW t \in MemTasks
        PROVE  /\ memTask[t] \in MemRows
               /\ [memTask[t] EXCEPT !.st = "ready"] \in MemRows
               /\ [memTask[t] EXCEPT !.st = "ready"].st = "ready"
               /\ [memTask[t] EXCEPT !.st = "ready"].node = memTask[t].node
    BY <1>2 DEF MemTypeOK, MemRows, MemStatuses
  <1>3. memTask' \in [MemTasks -> MemRows]
    <2>1. memTask' = [t \in MemTasks |-> memTask'[t]]
      BY DEF mem_trigger_pending_tasks
    <2>2. \A t \in MemTasks : memTask'[t] \in MemRows
      BY <1>1, <1>2
    <2> QED BY <2>1, <2>2
  <1> QED BY <1>1, <1>2, <1>3 DEF mem_trigger_pending_tasks, MemTypeOK, MemSlots

(* Leases go, none is made: a slot keeps its lease or holds no live one. *)
MemDrops ==
    /\ UNCHANGED <<memTask, memClaimed>>
    /\ \A l \in MemSlots : memLease'[l] = memLease[l] \/ ~memLease'[l].live

(* Dropping leases takes owners away and adds none. *)
LEMMA MemDropDrops ==
  ASSUME MemTypeOK, NEW L, MemDrop(L), UNCHANGED <<memTask, memUp, memClaimed>>,
         memAt' \in [MemThreads -> MemPlaces]
  PROVE  MemTypeOK' /\ MemDrops
  BY MemDropFrees DEF MemTypeOK, MemDrops, MemFree, MemSlots

(* So does a lease that runs out. *)
LEMMA MemLapseDrops ==
  ASSUME MemTypeOK, NEW l \in MemSlots, MemLapse(l)
  PROVE  MemTypeOK' /\ MemDrops
  <1> DEFINE gone == [memLease[l] EXCEPT !.live = FALSE]
  <1>1. gone \in MemLeaseRows /\ ~gone.live
    BY DEF MemTypeOK, MemLeaseRows
  <1>2. memLease' = [memLease EXCEPT ![l] = gone]
    BY DEF MemLapse, MemTypeOK
  <1> QED BY <1>1, <1>2 DEF MemLapse, MemTypeOK, MemDrops, MemSlots

(* The sections that only read move a thread. *)
LEMMA MemReadsMove ==
  ASSUME MemTypeOK, NEW h \in MemThreads,
         mem_requeue_lookup(h) \/ mem_online_nodes(h) \/ mem_active_leased_task_ids(h)
  PROVE  MemTypeOK' /\ UNCHANGED <<memTask, memLease, memClaimed>>
  <1>1. memAt[h] \in MemPlaces
    BY DEF MemTypeOK
  <1>2. CASE mem_requeue_lookup(h)
    <2>1. ASSUME NEW l \in MemSlots
          PROVE  [memAt[h] EXCEPT !.pc = "revoke", !.slot = l] \in MemPlaces
      <3>1. l \in 0..MemLeases
        BY DEF MemSlots
      <3> QED BY <1>1, <3>1 DEF MemPlaces, MemClaiming
    <2>2. ASSUME NEW t, NEW l \in mem_get_lease_by_task(t)
          PROVE  l \in MemSlots
      BY <2>2 DEF mem_get_lease_by_task, MemOf
    <2>3. memAt' \in [MemThreads -> MemPlaces]
      <3>1. PICK rec : memAt' = [memAt EXCEPT ![h] = rec] /\ rec \in MemPlaces
        BY <1>2, <2>1, <2>2, MemIdleOK DEF mem_requeue_lookup, MemGoto
      <3> QED BY <3>1 DEF MemTypeOK
    <2> QED BY <1>2, <2>3 DEF mem_requeue_lookup, MemTypeOK
  <1>3. CASE mem_online_nodes(h)
    <2>1. [MemIdle EXCEPT !.pc = "leased", !.nodes = memUp] \in MemPlaces
      BY MemIdleOK DEF MemPlaces, MemClaiming, MemTypeOK
    <2>2. memAt' \in [MemThreads -> MemPlaces]
      BY <1>3, <2>1 DEF mem_online_nodes, MemGoto, MemTypeOK
    <2> QED BY <1>3, <2>2 DEF mem_online_nodes, MemTypeOK
  <1>4. CASE mem_active_leased_task_ids(h)
    <2> DEFINE leased == {t \in MemTasks : MemLive(t) # {}}
    <2>1. leased \in SUBSET MemTasks
      OBVIOUS
    <2> HIDE DEF leased
    <2>2. [memAt[h] EXCEPT !.pc = "place", !.leased = leased] \in MemPlaces
      BY <1>1, <2>1 DEF MemPlaces, MemClaiming
    <2>3. memAt' \in [MemThreads -> MemPlaces]
      BY <1>4, <2>2 DEF mem_active_leased_task_ids, MemGoto, MemTypeOK, leased
    <2> QED BY <1>4, <2>3 DEF mem_active_leased_task_ids, MemTypeOK
  <1> QED BY <1>2, <1>3, <1>4

(* What a pass does: it takes ready tasks, one a lane and none of a lane   *)
(* that runs, puts no more on a node than it has room for, and gives each  *)
(* a slot that was free.                                                   *)
MemLeaseOf(t, n) == [task |-> t, node |-> n, live |-> TRUE]

MemPlaced(n) == {t \in MemTasks \ memClaimed : memTask[t].st = "running" /\ memTask[t].node = n}

MemFits(S, f) ==
    \A n \in MemNodes :
       LET k == Cardinality({t \in S : f[t] = n})
       IN  k > 0 => Cardinality(MemPlaced(n)) + k <= MemCap[n]

MemStarts(S, f) ==
    /\ \A t \in S : memTask[t].st = "ready"
    /\ \A t \in S : \A u \in MemSiblings(t) : u \notin S /\ memTask[u].st # "running"
    /\ MemFits(S, f)
    /\ memClaimed' = memClaimed \ S
    /\ memTask' = [t \in MemTasks |-> IF t \in S
          THEN [memTask[t] EXCEPT !.st = "running", !.node = f[t]] ELSE memTask[t]]
    /\ \A t \in S : \E l \in MemSlots :
          memLease[l] = MemFree /\ memLease'[l] = MemLeaseOf(t, f[t])
    /\ \A l \in MemSlots :
          \/ memLease'[l] = memLease[l]
          \/ memLease[l] = MemFree /\ \E t \in S : memLease'[l] = MemLeaseOf(t, f[t])

(* A pass counts what was claimed too, so it leaves room enough. *)
LEMMA MemRoomSuffices ==
  ASSUME NEW h, NEW S \in SUBSET MemTasks, NEW f \in [S -> MemNodes], MemRoom(h, S, f)
  PROVE  MemFits(S, f)
  <1> SUFFICES ASSUME NEW n \in MemNodes, Cardinality({t \in S : f[t] = n}) > 0
               PROVE  Cardinality(MemPlaced(n)) + Cardinality({t \in S : f[t] = n}) <= MemCap[n]
    BY DEF MemFits
  <1> DEFINE all == {t \in MemTasks : memTask[t].st = "running" /\ memTask[t].node = n}
             on == {t \in S : f[t] = n}
  <1>1. MemPlaced(n) \subseteq all /\ all \subseteq MemTasks /\ on \subseteq MemTasks
    BY DEF MemPlaced
  <1>2. IsFiniteSet(all) /\ IsFiniteSet(on)
    BY <1>1, FS_Subset
  <1>3. Cardinality(MemPlaced(n)) <= Cardinality(all) /\ IsFiniteSet(MemPlaced(n))
    BY <1>1, <1>2, FS_Subset
  <1>4. Cardinality(MemPlaced(n)) \in Nat /\ Cardinality(all) \in Nat /\ Cardinality(on) \in Nat
    BY <1>2, <1>3, FS_CardinalityType
  <1>5. Cardinality(all) + Cardinality(on) <= MemCap[n]
    BY DEF MemRoom, MemRunning
  <1>6. MemCap[n] \in Nat
    OBVIOUS
  <1> HIDE DEF all, on
  <1>7. Cardinality(MemPlaced(n)) + Cardinality(on) <= MemCap[n]
    BY <1>3, <1>4, <1>5, <1>6
  <1> QED BY <1>7 DEF on

(* A pass starts the tasks it places, each under a new lease. *)
LEMMA MemScheduleStarts ==
  ASSUME MemTypeOK, NEW h \in MemThreads, mem_schedule_pending_detailed(h)
  PROVE  MemTypeOK' /\ \E S \in SUBSET MemTasks : \E f \in [S -> MemNodes] : MemStarts(S, f)
  <1>1. PICK S \in SUBSET MemTasks : \E f \in [S -> MemNodes] :
          /\ MemPlaceable(h, S) /\ MemRoom(h, S, f)
          /\ memTask' = [t \in MemTasks |-> IF t \in S
                THEN [memTask[t] EXCEPT !.st = "running", !.node = f[t]] ELSE memTask[t]]
          /\ \E slot \in [S -> {l \in MemSlots : memLease[l] = MemFree}] :
                /\ \A t, u \in S : t # u => slot[t] # slot[u]
                /\ memIndex' = [t \in MemTasks |-> IF t \in S THEN slot[t] ELSE memIndex[t]]
                /\ memLease' = [l \in MemSlots |->
                      IF \E t \in S : slot[t] = l
                      THEN LET t == CHOOSE u \in S : slot[u] = l
                           IN  [task |-> t, node |-> f[t], live |-> TRUE]
                      ELSE memLease[l]]
          /\ memClaimed' = memClaimed \ S
    BY DEF mem_schedule_pending_detailed
  <1>2. PICK f \in [S -> MemNodes] :
          /\ MemPlaceable(h, S) /\ MemRoom(h, S, f)
          /\ memTask' = [t \in MemTasks |-> IF t \in S
                THEN [memTask[t] EXCEPT !.st = "running", !.node = f[t]] ELSE memTask[t]]
          /\ \E slot \in [S -> {l \in MemSlots : memLease[l] = MemFree}] :
                /\ \A t, u \in S : t # u => slot[t] # slot[u]
                /\ memIndex' = [t \in MemTasks |-> IF t \in S THEN slot[t] ELSE memIndex[t]]
                /\ memLease' = [l \in MemSlots |->
                      IF \E t \in S : slot[t] = l
                      THEN LET t == CHOOSE u \in S : slot[u] = l
                           IN  [task |-> t, node |-> f[t], live |-> TRUE]
                      ELSE memLease[l]]
          /\ memClaimed' = memClaimed \ S
    BY <1>1
  <1>3. PICK slot \in [S -> {l \in MemSlots : memLease[l] = MemFree}] :
          /\ \A t, u \in S : t # u => slot[t] # slot[u]
          /\ memIndex' = [t \in MemTasks |-> IF t \in S THEN slot[t] ELSE memIndex[t]]
          /\ memLease' = [l \in MemSlots |->
                IF \E t \in S : slot[t] = l
                THEN LET t == CHOOSE u \in S : slot[u] = l
                     IN  [task |-> t, node |-> f[t], live |-> TRUE]
                ELSE memLease[l]]
    BY <1>2
  <1>4. ASSUME NEW t \in S
        PROVE  /\ slot[t] \in MemSlots /\ memLease[slot[t]] = MemFree
               /\ memLease'[slot[t]] = MemLeaseOf(t, f[t])
    <2>1. slot[t] \in MemSlots /\ memLease[slot[t]] = MemFree
      BY <1>4
    <2>2. (CHOOSE u \in S : slot[u] = slot[t]) = t
      BY <1>3, <1>4
    <2> QED BY <1>3, <1>4, <2>1, <2>2 DEF MemLeaseOf
  <1>5. ASSUME NEW l \in MemSlots
        PROVE  \/ memLease'[l] = memLease[l]
               \/ memLease[l] = MemFree /\ \E t \in S : memLease'[l] = MemLeaseOf(t, f[t])
    <2>1. CASE \E t \in S : slot[t] = l
      BY <1>4, <2>1
    <2>2. CASE ~\E t \in S : slot[t] = l
      BY <1>3, <1>5, <2>2
    <2> QED BY <2>1, <2>2
  <1>6. MemStarts(S, f)
    <2>1. MemFits(S, f)
      BY <1>2, MemRoomSuffices
    <2>2. /\ \A t \in S : memTask[t].st = "ready"
          /\ \A t \in S : \A u \in MemSiblings(t) : u \notin S /\ memTask[u].st # "running"
      BY <1>2 DEF MemPlaceable
    <2>3. \A t \in S : \E l \in MemSlots :
            memLease[l] = MemFree /\ memLease'[l] = MemLeaseOf(t, f[t])
      BY <1>4
    <2>4. \A l \in MemSlots :
            \/ memLease'[l] = memLease[l]
            \/ memLease[l] = MemFree /\ \E t \in S : memLease'[l] = MemLeaseOf(t, f[t])
      BY <1>5
    <2> QED BY <1>2, <2>1, <2>2, <2>3, <2>4 DEF MemStarts
  <1>7. memTask' \in [MemTasks -> MemRows]
    <2>1. ASSUME NEW t \in S
          PROVE  [memTask[t] EXCEPT !.st = "running", !.node = f[t]] \in MemRows
      <3>1. memTask[t] \in MemRows /\ f[t] \in MemNodes
        BY <2>1 DEF MemTypeOK
      <3> QED BY <3>1 DEF MemRows, MemStatuses
    <2> QED BY <1>2, <2>1 DEF MemTypeOK
  <1>8. memLease' \in [MemSlots -> MemLeaseRows]
    <2>1. ASSUME NEW t \in S
          PROVE  MemLeaseOf(t, f[t]) \in MemLeaseRows
      BY <2>1 DEF MemLeaseOf, MemLeaseRows
    <2>2. \A l \in MemSlots : memLease'[l] \in MemLeaseRows
      BY <1>5, <2>1 DEF MemTypeOK
    <2>3. memLease' = [l \in MemSlots |-> memLease'[l]]
      BY <1>3
    <2> QED BY <2>2, <2>3
  <1>9. memIndex' \in [MemTasks -> 0..MemLeases]
    BY <1>3, <1>4 DEF MemTypeOK, MemSlots
  <1>10. memAt' \in [MemThreads -> MemPlaces] /\ UNCHANGED memUp /\ memClaimed' \subseteq MemTasks
    BY <1>2, MemIdleOK DEF mem_schedule_pending_detailed, MemGoto, MemTypeOK
  <1> QED BY <1>6, <1>7, <1>8, <1>9, <1>10 DEF MemTypeOK

----------------------------------------------------------------------------
(* Every step is one of these. *)
MemSame(t) == memTask'[t].st = memTask[t].st /\ memTask'[t].node = memTask[t].node

MemAdmits ==
    /\ \A t \in MemTasks :
          \/ MemSame(t)
          \/ /\ memTask'[t].node = memTask[t].node
             /\ memTask[t].st \in {"none", "pending"} /\ memTask'[t].st \in {"pending", "ready"}
    /\ UNCHANGED <<memLease, memClaimed>>

MemWrites(t) ==
    /\ memTask[t].st # "none" /\ memTask'[t].node = memTask[t].node
    /\ memTask'[t].st \in MemTerminal \cup {"blocked", "ready", "pending"}
    /\ \A u \in MemTasks \ {t} : MemSame(u)
    /\ UNCHANGED <<memLease, memClaimed>>

MemYields(t) ==
    /\ memTask[t].st \notin MemTerminal \cup {"none"}
    /\ memTask'[t].st = "ready" /\ memTask'[t].node = MemNobody
    /\ \A u \in MemTasks \ {t} : MemSame(u)
    /\ UNCHANGED <<memLease, memClaimed>>

MemClaims(t) ==
    /\ memTask[t].st # "none"
    /\ memTask'[t].st = "running" /\ memTask'[t].node = memTask[t].node
    /\ \A u \in MemTasks \ {t} : MemSame(u)
    /\ memClaimed' = memClaimed \cup {t}
    /\ UNCHANGED memLease

MemTakes(t, n) ==
    /\ memTask'[t].st = memTask[t].st /\ memTask'[t].node = n
    /\ \A u \in MemTasks \ {t} : MemSame(u)
    /\ UNCHANGED <<memLease, memClaimed>>

MemLends(t, n) ==
    /\ \E l \in MemSlots : /\ memLease[l] = MemFree
                           /\ memLease' = [memLease EXCEPT ![l] = MemLeaseOf(t, n)]
    /\ UNCHANGED <<memTask, memClaimed>>

MemEffect ==
    \/ MemAdmits \/ MemDrops
    \/ \E t \in MemTasks : MemWrites(t) \/ MemYields(t) \/ MemClaims(t)
    \/ \E t \in MemTasks : \E n \in MemNodes : MemTakes(t, n) \/ MemLends(t, n)
    \/ \E S \in SUBSET MemTasks : \E f \in [S -> MemNodes] : MemStarts(S, f)

(* set_task_status to running is a claim, from whichever call. *)
LEMMA MemClaimsRow ==
  ASSUME MemTypeOK, NEW t \in MemTasks, memTask[t].st # "none",
         memTask' = [memTask EXCEPT ![t].st = "running"],
         memClaimed' = memClaimed \cup {t},
         UNCHANGED <<memLease, memIndex, memUp>>, memAt' \in [MemThreads -> MemPlaces]
  PROVE  MemTypeOK' /\ MemClaims(t)
  <1>1. PICK row \in MemRows :
          MemRowWrite(t, row) /\ row.st = "running" /\ row.node = memTask[t].node
    BY MemStatusWrites DEF MemStatuses
  <1>2. memClaimed' \subseteq MemTasks
    BY DEF MemTypeOK
  <1>3. MemTypeOK'
    BY <1>1, <1>2, MemRowWriteTyped
  <1>4. MemClaims(t)
    BY <1>1 DEF MemClaims, MemSame, MemRowWrite, MemTypeOK
  <1> QED BY <1>3, <1>4

(* create_lease fills a free slot. *)
LEMMA MemLendFills ==
  ASSUME MemTypeOK, NEW t \in MemTasks, NEW n \in MemNodes, MemLend(t, n),
         UNCHANGED <<memTask, memUp, memClaimed>>, memAt' \in [MemThreads -> MemPlaces]
  PROVE  MemTypeOK' /\ MemLends(t, n)
  <1>1. PICK l \in MemSlots :
          /\ memLease[l] = MemFree
          /\ memLease' = [memLease EXCEPT ![l] = MemLeaseOf(t, n)]
          /\ memIndex' = [memIndex EXCEPT ![t] = l]
    BY DEF MemLend, MemLeaseOf
  <1>2. MemLeaseOf(t, n) \in MemLeaseRows
    BY DEF MemLeaseOf, MemLeaseRows
  <1>3. memLease' \in [MemSlots -> MemLeaseRows] /\ memIndex' \in [MemTasks -> 0..MemLeases]
    BY <1>1, <1>2 DEF MemTypeOK, MemSlots
  <1>4. MemTypeOK'
    BY <1>3 DEF MemTypeOK
  <1>5. MemLends(t, n)
    BY <1>1 DEF MemLends
  <1> QED BY <1>4, <1>5

(* The sections of claim_task read, claim, take and lend. *)
LEMMA MemClaimSections ==
  ASSUME MemTypeOK, NEW h \in MemThreads
  PROVE  /\ \A t \in MemTasks : \A n \in MemNodes :
               mem_claim_read(h, t, n) => MemTypeOK' /\ MemDrops
         /\ mem_claim_status(h) =>
               MemTypeOK' /\ (MemDrops \/ \E t \in MemTasks : MemClaims(t))
         /\ mem_claim_assign(h) =>
               MemTypeOK' /\ \E t \in MemTasks : \E n \in MemNodes : MemTakes(t, n)
         /\ mem_claim_lease(h) =>
               MemTypeOK' /\ \E t \in MemTasks : \E n \in MemNodes : MemLends(t, n)
  <1>1. memAt[h] \in MemPlaces
    BY DEF MemTypeOK
  <1> DEFINE t == memAt[h].task
             n == memAt[h].node
  <1>2. ASSUME memAt[h].pc \in MemClaiming
        PROVE  /\ t \in MemTasks /\ n \in MemNodes
               /\ \A p \in MemClaiming : [memAt[h] EXCEPT !.pc = p] \in MemPlaces
    BY <1>1, <1>2 DEF MemPlaces
  <1>3. ASSUME NEW rec \in MemPlaces, MemGoto(h, rec)
        PROVE  memAt' \in [MemThreads -> MemPlaces]
    BY <1>3 DEF MemGoto, MemTypeOK
  <1>4. ASSUME NEW u \in MemTasks, NEW m \in MemNodes, mem_claim_read(h, u, m)
        PROVE  MemTypeOK' /\ MemDrops
    <2>1. [MemIdle EXCEPT !.pc = "claim", !.task = u, !.node = m] \in MemPlaces
      BY MemIdleOK DEF MemPlaces, MemClaiming
    <2>2. memAt' \in [MemThreads -> MemPlaces]
      BY <1>3, <1>4, <2>1 DEF mem_claim_read
    <2> QED BY <1>4, <2>2 DEF mem_claim_read, MemTypeOK, MemDrops
  <1>5. ASSUME mem_claim_status(h)
        PROVE  MemTypeOK' /\ (MemDrops \/ MemClaims(t)) /\ t \in MemTasks
    <2>1. t \in MemTasks /\ [memAt[h] EXCEPT !.pc = "take"] \in MemPlaces
      BY <1>2, <1>5 DEF mem_claim_status, MemClaiming
    <2>2. memAt' \in [MemThreads -> MemPlaces]
      BY <1>3, <1>5, <2>1 DEF mem_claim_status
    <2>3. CASE MemAccepts(t, "running")
      <3>1. /\ memTask[t].st # "none"
            /\ memTask' = [memTask EXCEPT ![t].st = "running"]
            /\ memClaimed' = memClaimed \cup {t}
            /\ UNCHANGED <<memLease, memIndex, memUp>>
        BY <1>5, <2>3 DEF mem_claim_status, MemAccepts
      <3> HIDE DEF t
      <3> QED BY <2>1, <2>2, <3>1, MemClaimsRow
    <2>4. CASE ~MemAccepts(t, "running")
      <3>1. UNCHANGED <<memTask, memLease, memIndex, memUp, memClaimed>>
        BY <1>5, <2>4 DEF mem_claim_status
      <3> QED BY <2>1, <2>2, <3>1 DEF MemTypeOK, MemDrops
    <2> QED BY <2>3, <2>4
  <1>6. ASSUME mem_claim_assign(h)
        PROVE  MemTypeOK' /\ MemTakes(t, n) /\ t \in MemTasks /\ n \in MemNodes
    <2>1. t \in MemTasks /\ n \in MemNodes /\ [memAt[h] EXCEPT !.pc = "lend"] \in MemPlaces
      BY <1>2, <1>6 DEF mem_claim_assign, MemClaiming
    <2>2. memAt' \in [MemThreads -> MemPlaces]
      BY <1>3, <1>6, <2>1 DEF mem_claim_assign
    <2>3. memTask' = [memTask EXCEPT ![t].node = n]
          /\ UNCHANGED <<memLease, memIndex, memUp, memClaimed>>
      BY <1>6 DEF mem_claim_assign
    <2> HIDE DEF t, n
    <2> DEFINE row == [memTask[t] EXCEPT !.node = n]
    <2>4. memTask[t] \in MemRows
      BY <2>1 DEF MemTypeOK
    <2>5. row \in MemRows /\ row.st = memTask[t].st /\ row.node = n
      BY <2>1, <2>4 DEF MemRows
    <2>6. MemRowWrite(t, row)
      BY <2>1, <2>3 DEF MemRowWrite, MemTypeOK
    <2> HIDE DEF row
    <2>7. MemTypeOK'
      BY <2>1, <2>2, <2>3, <2>5, <2>6, MemRowWriteTyped DEF MemTypeOK
    <2>8. MemTakes(t, n)
      BY <2>1, <2>3, <2>5, <2>6 DEF MemTakes, MemSame, MemRowWrite, MemTypeOK
    <2> QED BY <2>1, <2>7, <2>8
  <1>7. ASSUME mem_claim_lease(h)
        PROVE  MemTypeOK' /\ MemLends(t, n) /\ t \in MemTasks /\ n \in MemNodes
    <2>1. t \in MemTasks /\ n \in MemNodes
      BY <1>2, <1>7 DEF mem_claim_lease, MemClaiming
    <2>2. memAt' \in [MemThreads -> MemPlaces]
      BY <1>3, <1>7, MemIdleOK DEF mem_claim_lease
    <2>3. MemLend(t, n) /\ UNCHANGED <<memTask, memUp, memClaimed>>
      BY <1>7 DEF mem_claim_lease
    <2> HIDE DEF t, n
    <2> QED BY <2>1, <2>2, <2>3, MemLendFills
  <1> HIDE DEF t, n
  <1>8. mem_claim_status(h) => MemTypeOK' /\ (MemDrops \/ \E u \in MemTasks : MemClaims(u))
    BY <1>5
  <1>9. mem_claim_assign(h) => MemTypeOK' /\ \E u \in MemTasks : \E m \in MemNodes : MemTakes(u, m)
    BY <1>6
  <1>10. mem_claim_lease(h) => MemTypeOK' /\ \E u \in MemTasks : \E m \in MemNodes : MemLends(u, m)
    BY <1>7
  <1> QED BY <1>4, <1>8, <1>9, <1>10

(* Every step admits, drops, writes, yields, claims, takes, lends or       *)
(* starts.                                                                 *)
LEMMA MemStepEffect ==
  ASSUME MemTypeOK, MemNext
  PROVE  MemTypeOK' /\ MemEffect
  <1>1. CASE mem_trigger_pending_tasks
    BY <1>1, MemTriggerWrites DEF MemEffect, MemAdmits, MemSame
  <1>2. CASE mem_get_active_leases
    <2>1. PICK L : MemDrop(L)
      BY <1>2 DEF mem_get_active_leases
    <2> QED BY <1>2, <2>1, MemDropDrops DEF mem_get_active_leases, MemTypeOK, MemEffect
  <1>3. ASSUME NEW t \in MemTasks, mem_create_task(t)
        PROVE  MemTypeOK' /\ MemEffect
    <2>1. PICK row \in MemRows :
            /\ MemRowWrite(t, row) /\ UNCHANGED <<memAt, memClaimed>>
            /\ memTask[t].st = "none" /\ row.st = "pending" /\ row.node = memTask[t].node
      BY <1>3, MemCreateWrites
    <2>2. MemTypeOK'
      BY <2>1, MemRowWriteTyped DEF MemTypeOK
    <2>3. MemAdmits
      BY <2>1 DEF MemAdmits, MemSame, MemRowWrite, MemTypeOK
    <2> QED BY <2>2, <2>3 DEF MemEffect
  <1>4. ASSUME NEW t \in MemTasks, mem_unassign_task(t)
        PROVE  MemTypeOK' /\ MemEffect
    <2>1. PICK row \in MemRows :
            /\ MemRowWrite(t, row) /\ UNCHANGED <<memAt, memClaimed>>
            /\ memTask[t].st \notin MemTerminal \cup {"none"}
            /\ row.st = "ready" /\ row.node = MemNobody
      BY <1>4, MemUnassignWrites
    <2>2. MemTypeOK'
      BY <2>1, MemRowWriteTyped DEF MemTypeOK
    <2>3. MemYields(t)
      BY <2>1 DEF MemYields, MemSame, MemRowWrite, MemTypeOK
    <2> QED BY <2>2, <2>3 DEF MemEffect
  <1>5. ASSUME NEW t \in MemTasks, NEW s \in MemTerminal \cup {"blocked", "ready", "pending"},
               mem_set_task_status(t, s) \/ mem_unblock(t, s)
        PROVE  MemTypeOK' /\ MemEffect
    <2>0. s \in MemStatuses /\ s # "running"
      BY DEF MemStatuses, MemTerminal
    <2>1. memTask[t].st # "none" /\ memTask' = [memTask EXCEPT ![t].st = s]
          /\ UNCHANGED <<memLease, memIndex, memUp, memAt, memClaimed>>
      BY <1>5, <2>0 DEF mem_set_task_status, MemAccepts, mem_unblock
    <2>2. PICK row \in MemRows :
            MemRowWrite(t, row) /\ row.st = s /\ row.node = memTask[t].node
      BY <2>0, <2>1, MemStatusWrites
    <2>3. MemTypeOK'
      BY <2>1, <2>2, MemRowWriteTyped DEF MemTypeOK
    <2>4. MemWrites(t)
      BY <2>1, <2>2 DEF MemWrites, MemSame, MemRowWrite, MemTypeOK
    <2> QED BY <2>3, <2>4 DEF MemEffect
  <1>6. ASSUME NEW t \in MemTasks, NEW D \in SUBSET MemTasks, mem_set_dependencies(t, D)
        PROVE  MemTypeOK' /\ MemEffect
    <2>1. PICK row \in MemRows :
            /\ MemRowWrite(t, row) /\ UNCHANGED <<memAt, memClaimed>>
            /\ row.st = memTask[t].st /\ row.node = memTask[t].node
      BY <1>6, MemDepsWrites
    <2>2. MemTypeOK'
      BY <2>1, MemRowWriteTyped DEF MemTypeOK
    <2>3. MemAdmits
      BY <2>1 DEF MemAdmits, MemSame, MemRowWrite, MemTypeOK
    <2> QED BY <2>2, <2>3 DEF MemEffect
  <1>7. ASSUME NEW h \in MemThreads, NEW t \in MemTasks, mem_requeue_task(h, t)
        PROVE  MemTypeOK' /\ MemEffect
    <2>1. memAt' \in [MemThreads -> MemPlaces]
      BY <1>7, MemRequeueWrites
    <2>2. PICK row \in MemRows :
            /\ MemRowWrite(t, row) /\ UNCHANGED memClaimed
            /\ memTask[t].st \notin MemTerminal \cup {"none"}
            /\ row.st = "ready" /\ row.node = MemNobody
      BY <1>7, MemRequeueWrites
    <2>3. MemTypeOK'
      BY <2>1, <2>2, MemRowWriteTyped DEF MemTypeOK
    <2>4. MemYields(t)
      BY <2>2 DEF MemYields, MemSame, MemRowWrite, MemTypeOK
    <2> QED BY <2>3, <2>4 DEF MemEffect
  <1>8. ASSUME NEW h \in MemThreads,
               mem_requeue_lookup(h) \/ mem_online_nodes(h) \/ mem_active_leased_task_ids(h)
        PROVE  MemTypeOK' /\ MemEffect
    BY <1>8, MemReadsMove DEF MemEffect, MemDrops
  <1>9. ASSUME NEW h \in MemThreads, mem_requeue_revoke(h)
        PROVE  MemTypeOK' /\ MemEffect
    <2>1. memAt' \in [MemThreads -> MemPlaces] /\ UNCHANGED <<memTask, memUp, memClaimed>>
      BY <1>9, MemIdleOK DEF mem_requeue_revoke, MemGoto, MemTypeOK
    <2>2. CASE UNCHANGED <<memLease, memIndex>>
      BY <2>1, <2>2 DEF MemTypeOK, MemEffect, MemDrops
    <2>3. CASE MemDrop({memAt[h].slot})
      BY <2>1, <2>3, MemDropDrops DEF MemEffect
    <2> QED BY <1>9, <2>2, <2>3 DEF mem_requeue_revoke
  <1>10. ASSUME NEW h \in MemThreads, mem_schedule_pending_detailed(h)
         PROVE  MemTypeOK' /\ MemEffect
    BY <1>10, MemScheduleStarts DEF MemEffect
  <1>11. ASSUME NEW l \in MemSlots, mem_revoke_lease(l)
         PROVE  MemTypeOK' /\ MemEffect
    BY <1>11, MemDropDrops DEF mem_revoke_lease, MemTypeOK, MemEffect
  <1>12. ASSUME NEW l \in MemSlots, MemLapse(l)
         PROVE  MemTypeOK' /\ MemEffect
    BY <1>12, MemLapseDrops DEF MemEffect
  <1>13. ASSUME NEW n \in MemNodes, MemNodeFlips(n)
         PROVE  MemTypeOK' /\ MemEffect
    BY <1>13 DEF MemNodeFlips, MemTypeOK, MemEffect, MemDrops
  <1>14. ASSUME NEW t \in MemTasks, mem_set_task_status(t, "running")
         PROVE  MemTypeOK' /\ MemEffect
    <2>1. /\ memTask[t].st # "none"
          /\ memTask' = [memTask EXCEPT ![t].st = "running"]
          /\ memClaimed' = memClaimed \cup {t}
          /\ UNCHANGED <<memLease, memIndex, memUp, memAt>>
      BY <1>14 DEF mem_set_task_status, MemAccepts
    <2>2. memAt' \in [MemThreads -> MemPlaces]
      BY <2>1 DEF MemTypeOK
    <2> QED BY <2>1, <2>2, MemClaimsRow DEF MemEffect
  <1>15. ASSUME NEW t \in MemTasks, NEW n \in MemNodes, mem_create_lease(t, n)
         PROVE  MemTypeOK' /\ MemEffect
    <2>1. /\ MemLend(t, n) /\ UNCHANGED <<memTask, memUp, memClaimed>>
          /\ memAt' \in [MemThreads -> MemPlaces]
      BY <1>15 DEF mem_create_lease, MemTypeOK
    <2> QED BY <2>1, MemLendFills DEF MemEffect
  <1>16. ASSUME NEW h \in MemThreads,
                \/ \E t \in MemTasks : \E n \in MemNodes : mem_claim_read(h, t, n)
                \/ mem_claim_status(h) \/ mem_claim_assign(h) \/ mem_claim_lease(h)
         PROVE  MemTypeOK' /\ MemEffect
    BY <1>16, MemClaimSections DEF MemEffect
  <1> QED
    <2>1. /\ {"running", "completed", "cancel_requested", "cancelled", "blocked", "ready", "pending"} \ {"running"}
                \subseteq MemTerminal \cup {"blocked", "ready", "pending"}
          /\ {"ready", "pending"} \subseteq MemTerminal \cup {"blocked", "ready", "pending"}
      BY DEF MemTerminal
    <2>2. \A t \in MemTasks : MemDeps[t] \in SUBSET MemTasks /\ {} \in SUBSET MemTasks
      OBVIOUS
    <2> QED
      BY <1>1, <1>2, <1>3, <1>4, <1>5, <1>6, <1>7, <1>8, <1>9, <1>10, <1>11, <1>12, <1>13,
         <1>14, <1>15, <1>16, <2>1, <2>2 DEF MemNext

(* The types of the tables, of what the threads carry and of the slots. *)
THEOREM MemTypes == MemSpec => []MemTypeOK
  <1>1. MemTypeOK /\ [MemNext]_memVars => MemTypeOK'
    <2>1. ASSUME MemTypeOK, UNCHANGED memVars PROVE MemTypeOK'
      BY <2>1 DEF memVars, MemTypeOK, MemSlots
    <2> QED BY <2>1, MemStepEffect
  <1> QED BY <1>1, MemInitTyped, PTL DEF MemSpec

----------------------------------------------------------------------------
(* LFP-1: lane_blocked_ready_ids is read in the section that starts the    *)
(* tasks, so no interleaving of passes, requeues, claims and writes has    *)
(* passes run two tasks of a lane: of two that run, one was written        *)
(* "running" by set_task_status and not placed since.                      *)
THEOREM MemLanesStaySerial == MemSpec => []MemLanesSerial
  <1>1. MemInit => MemLanesSerial
    BY DEF MemInit, MemLanesSerial, MemSiblings
  <1>2. ASSUME MemTypeOK, MemTypeOK', MemLanesSerial, MemEffect
        PROVE  MemLanesSerial'
    <2> SUFFICES ASSUME NEW t \in MemTasks, NEW u \in MemSiblings(t),
                        t \notin memClaimed', u \notin memClaimed',
                        memTask'[t].st = "running", memTask'[u].st = "running"
                 PROVE  FALSE
      BY DEF MemLanesSerial, MemSiblings
    <2>1. u \in MemTasks /\ t \in MemSiblings(u)
      BY DEF MemSiblings
    <2>2. ASSUME \A v \in MemTasks \ memClaimed' : memTask'[v].st = "running" =>
                    v \notin memClaimed /\ memTask[v].st = "running"
          PROVE  FALSE
      BY <1>2, <2>1, <2>2 DEF MemLanesSerial
    <2>3. CASE \/ MemAdmits \/ MemDrops
               \/ \E v \in MemTasks : MemWrites(v) \/ MemYields(v)
      <3>1. ASSUME NEW v \in MemTasks \ memClaimed', memTask'[v].st = "running"
            PROVE  v \notin memClaimed /\ memTask[v].st = "running"
        BY <2>3, <3>1 DEF MemAdmits, MemDrops, MemWrites, MemYields, MemSame, MemTerminal
      <3> QED BY <2>2, <3>1
    <2>4. CASE \E v \in MemTasks : MemClaims(v)
      <3>1. ASSUME NEW v \in MemTasks \ memClaimed', memTask'[v].st = "running"
            PROVE  v \notin memClaimed /\ memTask[v].st = "running"
        BY <2>4, <3>1 DEF MemClaims, MemSame
      <3> QED BY <2>2, <3>1
    <2>5. CASE \E v \in MemTasks : \E n \in MemNodes : MemTakes(v, n) \/ MemLends(v, n)
      <3>1. ASSUME NEW v \in MemTasks \ memClaimed', memTask'[v].st = "running"
            PROVE  v \notin memClaimed /\ memTask[v].st = "running"
        BY <2>5, <3>1 DEF MemTakes, MemLends, MemSame
      <3> QED BY <2>2, <3>1
    <2>6. ASSUME NEW S \in SUBSET MemTasks, NEW f \in [S -> MemNodes], MemStarts(S, f)
          PROVE  FALSE
      <3>1. ASSUME NEW v \in MemTasks, v \notin S PROVE memTask'[v] = memTask[v]
        BY <2>6, <3>1 DEF MemStarts
      <3>2. CASE t \in S
        BY <2>1, <2>6, <3>1, <3>2 DEF MemStarts
      <3>3. CASE u \in S
        BY <2>1, <2>6, <3>1, <3>3 DEF MemStarts
      <3>4. CASE t \notin S /\ u \notin S
        <4>1. t \notin memClaimed /\ u \notin memClaimed
          BY <2>6, <3>4 DEF MemStarts
        <4> QED BY <1>2, <2>1, <3>1, <3>4, <4>1 DEF MemLanesSerial
      <3> QED BY <3>2, <3>3, <3>4
    <2> QED BY <1>2, <2>3, <2>4, <2>5, <2>6 DEF MemEffect
  <1>3. MemTypeOK /\ MemTypeOK' /\ MemLanesSerial /\ [MemNext]_memVars => MemLanesSerial'
    <2>1. ASSUME MemLanesSerial, UNCHANGED memVars PROVE MemLanesSerial'
      BY <2>1 DEF memVars, MemLanesSerial, MemSiblings
    <2> QED BY <1>2, <2>1, MemStepEffect
  <1> QED BY <1>1, <1>3, MemTypes, PTL DEF MemSpec

----------------------------------------------------------------------------
(* The refinement: each of the effects is a step of Store. *)
memStBar == [t \in MemTasks |-> memTask[t].st]
memOwnerBar == [t \in MemTasks |-> memTask[t].node]
memHeldBar == [t \in MemTasks |-> {memLease[l].node : l \in MemLive(t)}]

(* Who holds a lease, slot by slot. *)
LEMMA MemHeldBy ==
  ASSUME NEW t \in MemTasks
  PROVE  /\ \A n : n \in memHeldBar[t] <=>
                \E l \in MemSlots : memLease[l].task = t /\ memLease[l].live /\ memLease[l].node = n
         /\ \A n : n \in memHeldBar'[t] <=>
                \E l \in MemSlots : memLease'[l].task = t /\ memLease'[l].live /\ memLease'[l].node = n
  BY DEF memHeldBar, MemLive, MemOf

(* Counting is the same in both modules. *)
LEMMA MemCounts == ASSUME NEW S PROVE MemAbstract!Cardinality(S) = Cardinality(S)
  BY DEF MemAbstract!Cardinality, Cardinality

(* Where leases stay, so do the abstract store's. *)
LEMMA MemHeldKept ==
  ASSUME UNCHANGED memLease
  PROVE  UNCHANGED memHeldBar
  BY DEF memHeldBar, MemLive, MemOf

(* A step that admits is the abstract store's Admit. *)
LEMMA MemAdmitRefines == ASSUME MemTypeOK, MemAdmits PROVE MemAbstract!Admit
  <1>1. UNCHANGED memHeldBar
    BY MemHeldKept DEF MemAdmits
  <1>2. UNCHANGED memOwnerBar
    BY DEF MemAdmits, MemSame, memOwnerBar
  <1>3. \A t \in MemTasks : \/ memStBar'[t] = memStBar[t]
                            \/ memStBar[t] \in {"none", "pending", "ready"} /\ memStBar'[t] \in {"pending", "ready"}
    <2>1. \A t \in MemTasks : memStBar[t] = memTask[t].st /\ memStBar'[t] = memTask'[t].st
      BY DEF memStBar
    <2> QED BY <2>1 DEF MemAdmits, MemSame
  <1> QED BY <1>1, <1>2, <1>3 DEF MemAdmits, MemAbstract!Admit, memStBar, memOwnerBar, memHeldBar

(* A step that drops leases is its Drop. *)
LEMMA MemDropRefines == ASSUME MemTypeOK, MemDrops PROVE MemAbstract!Drop
  <1>1. ASSUME NEW t \in MemTasks
        PROVE  memHeldBar'[t] \subseteq memHeldBar[t]
    BY MemHeldBy DEF MemDrops
  <1>2. UNCHANGED <<memStBar, memOwnerBar>>
    BY DEF MemDrops, memStBar, memOwnerBar
  <1> QED BY <1>1, <1>2 DEF MemDrops, MemAbstract!Drop, memStBar, memOwnerBar, memHeldBar

(* A step that writes a status is its Write. *)
LEMMA MemWriteRefines ==
  ASSUME MemTypeOK, NEW t \in MemTasks, MemWrites(t)
  PROVE  MemAbstract!Write(t)
  <1>1. UNCHANGED <<memOwnerBar, memHeldBar>>
    BY MemHeldKept DEF MemWrites, MemSame, memOwnerBar
  <1>2. /\ memStBar[t] # "none" /\ memTask'[t].st \in MemAbstract!Terminal \cup {"blocked", "ready", "pending"}
        /\ memStBar' = [memStBar EXCEPT ![t] = memTask'[t].st]
    BY DEF MemWrites, MemSame, memStBar, MemAbstract!Terminal, MemTerminal
  <1> QED BY <1>1, <1>2 DEF MemWrites, MemAbstract!Write, memStBar, memOwnerBar, memHeldBar

(* A step that hands a task back is its Yield. *)
LEMMA MemYieldRefines ==
  ASSUME MemTypeOK, NEW t \in MemTasks, MemYields(t)
  PROVE  MemAbstract!Yield(t)
  <1>1. UNCHANGED memHeldBar
    BY MemHeldKept DEF MemYields
  <1>2. /\ memStBar[t] \notin MemAbstract!Terminal \cup {"none"}
        /\ memStBar' = [memStBar EXCEPT ![t] = "ready"]
        /\ memOwnerBar' = [memOwnerBar EXCEPT ![t] = MemAbstract!Nobody]
    BY DEF MemYields, MemSame, memStBar, memOwnerBar, MemAbstract!Terminal, MemTerminal,
           MemAbstract!Nobody, MemNobody
  <1>3. \A u \in MemTasks : memHeldBar'[u] \subseteq memHeldBar[u] /\ (u # t => memHeldBar'[u] = memHeldBar[u])
    BY <1>1
  <1> QED BY <1>2, <1>3 DEF MemYields, MemAbstract!Yield, memStBar, memOwnerBar, memHeldBar

(* A write of running is its Claim. *)
LEMMA MemClaimRefines ==
  ASSUME MemTypeOK, NEW t \in MemTasks, MemClaims(t)
  PROVE  MemAbstract!Claim(t)
  <1>1. UNCHANGED <<memOwnerBar, memHeldBar>>
    BY MemHeldKept DEF MemClaims, MemSame, memOwnerBar
  <1>2. memStBar[t] # "none" /\ memStBar' = [memStBar EXCEPT ![t] = "running"]
    BY DEF MemClaims, MemSame, memStBar
  <1> QED BY <1>1, <1>2 DEF MemClaims, MemAbstract!Claim, memStBar, memOwnerBar, memHeldBar

(* A claim's write of the owner is its Take. *)
LEMMA MemTakeRefines ==
  ASSUME MemTypeOK, NEW t \in MemTasks, NEW n \in MemNodes, MemTakes(t, n)
  PROVE  MemAbstract!Take(t, n)
  <1>1. UNCHANGED <<memStBar, memHeldBar>>
    BY MemHeldKept DEF MemTakes, MemSame, memStBar
  <1>2. memOwnerBar' = [memOwnerBar EXCEPT ![t] = n]
    BY DEF MemTakes, MemSame, memOwnerBar
  <1> QED BY <1>1, <1>2 DEF MemTakes, MemAbstract!Take, memStBar, memOwnerBar, memHeldBar

(* create_lease is its Lend. *)
LEMMA MemLendRefines ==
  ASSUME MemTypeOK, NEW t \in MemTasks, NEW n \in MemNodes, MemLends(t, n)
  PROVE  MemAbstract!Lend(t, n)
  <1>1. PICK l \in MemSlots :
          memLease[l] = MemFree /\ memLease' = [memLease EXCEPT ![l] = MemLeaseOf(t, n)]
    BY DEF MemLends
  <1>2. /\ MemLeaseOf(t, n).task = t /\ MemLeaseOf(t, n).node = n
        /\ MemLeaseOf(t, n).live /\ ~MemFree.live
    BY DEF MemLeaseOf, MemFree
  <1>3. \A m \in MemSlots : memLease'[m] = IF m = l THEN MemLeaseOf(t, n) ELSE memLease[m]
    BY <1>1 DEF MemTypeOK
  <1>4. ASSUME NEW u \in MemTasks
        PROVE  memHeldBar'[u] = IF u = t THEN memHeldBar[u] \cup {n} ELSE memHeldBar[u]
    <2>1. \A m \in MemSlots :
            (memLease'[m].task = u /\ memLease'[m].live) <=>
                (memLease[m].task = u /\ memLease[m].live) \/ (m = l /\ u = t)
      BY <1>1, <1>2, <1>3
    <2>2. \A k : k \in memHeldBar'[u] <=> k \in memHeldBar[u] \/ (u = t /\ k = n)
      BY <1>1, <1>2, <1>3, <2>1, MemHeldBy
    <2>3. CASE u = t
      <3>1. \A k : k \in memHeldBar'[u] <=> k \in memHeldBar[u] \cup {n}
        BY <2>2, <2>3
      <3>2. memHeldBar'[u] = memHeldBar[u] \cup {n}
        BY <3>1
      <3> QED BY <2>3, <3>2
    <2>4. CASE u # t
      <3>1. \A k : k \in memHeldBar'[u] <=> k \in memHeldBar[u]
        BY <2>2, <2>4
      <3>2. memHeldBar'[u] = memHeldBar[u]
        BY <3>1
      <3> QED BY <2>4, <3>2
    <2> QED BY <2>3, <2>4
  <1>5. memHeldBar' = [memHeldBar EXCEPT ![t] = memHeldBar[t] \cup {n}]
    <2>1. memHeldBar' = [u \in MemTasks |-> memHeldBar'[u]] /\ DOMAIN memHeldBar = MemTasks
      BY DEF memHeldBar
    <2>2. memHeldBar' = [u \in MemTasks |-> IF u = t THEN memHeldBar[u] \cup {n} ELSE memHeldBar[u]]
      BY <1>4, <2>1
    <2> QED BY <2>1, <2>2
  <1>6. UNCHANGED <<memStBar, memOwnerBar>>
    BY DEF MemLends, memStBar, memOwnerBar
  <1> QED BY <1>5, <1>6 DEF MemLends, MemAbstract!Lend, memStBar, memOwnerBar, memHeldBar

(* A pass is its Place. *)
LEMMA MemPlaceRefines ==
  ASSUME MemTypeOK, NEW S \in SUBSET MemTasks, NEW f \in [S -> MemNodes], MemStarts(S, f)
  PROVE  MemAbstract!Place(S, f)
  <1>1. \A t \in S : memStBar[t] = "ready"
    BY DEF MemStarts, memStBar
  <1>2. ASSUME NEW n \in MemNodes
        PROVE  Cardinality(MemPlaced(n)) = MemAbstract!Load(n)
    <2>1. MemPlaced(n) = {t \in MemTasks \ memClaimed : memStBar[t] = "running" /\ memOwnerBar[t] = n}
      BY DEF memStBar, memOwnerBar, MemPlaced
    <2>2. MemAbstract!Load(n) = Cardinality({t \in MemTasks \ memClaimed : memStBar[t] = "running" /\ memOwnerBar[t] = n})
      BY MemCounts DEF MemAbstract!Load, memStBar, memOwnerBar
    <2> QED BY <2>1, <2>2
  <1>3. \A n \in MemNodes : LET k == MemAbstract!Cardinality({t \in S : f[t] = n})
                           IN  k > 0 => MemAbstract!Load(n) + k <= MemCap[n]
    BY <1>2, MemCounts DEF MemStarts, MemFits
  <1>4. ASSUME NEW t \in MemTasks
        PROVE  /\ memTask'[t].st = IF t \in S THEN "running" ELSE memTask[t].st
               /\ memTask'[t].node = IF t \in S THEN f[t] ELSE memTask[t].node
    <2>1. memTask[t] \in MemRows
      BY DEF MemTypeOK
    <2> QED BY <1>4, <2>1 DEF MemStarts, MemRows
  <1>5. /\ memStBar' = [t \in MemTasks |-> IF t \in S THEN "running" ELSE memStBar[t]]
        /\ memOwnerBar' = [t \in MemTasks |-> IF t \in S THEN f[t] ELSE memOwnerBar[t]]
    BY <1>4 DEF memStBar, memOwnerBar
  <1>a. /\ \A t \in S : \E l \in MemSlots :
              memLease[l] = MemFree /\ memLease'[l] = MemLeaseOf(t, f[t])
        /\ \A l \in MemSlots :
              \/ memLease'[l] = memLease[l]
              \/ memLease[l] = MemFree /\ \E t \in S : memLease'[l] = MemLeaseOf(t, f[t])
    BY DEF MemStarts
  <1>b. ~MemFree.live
    BY DEF MemFree
  <1>c. \A t, n : MemLeaseOf(t, n).task = t /\ MemLeaseOf(t, n).node = n /\ MemLeaseOf(t, n).live
    BY DEF MemLeaseOf
  <1>6. ASSUME NEW t \in MemTasks
        PROVE  memHeldBar'[t] = IF t \in S THEN memHeldBar[t] \cup {f[t]} ELSE memHeldBar[t]
    <2>1. ASSUME NEW l \in MemSlots, memLease[l].task = t, memLease[l].live
          PROVE  memLease'[l] = memLease[l]
      BY <1>a, <1>b, <2>1
    <2>2. ASSUME NEW l \in MemSlots, memLease'[l].task = t, memLease'[l].live
          PROVE  memLease'[l] = memLease[l] \/ (t \in S /\ memLease'[l].node = f[t])
      <3>1. CASE memLease'[l] # memLease[l]
        <4>1. PICK v \in S : memLease'[l] = MemLeaseOf(v, f[v])
          BY <1>a, <3>1
        <4>2. v = t /\ memLease'[l].node = f[v]
          BY <1>c, <2>2, <4>1
        <4> QED BY <4>2
      <3> QED BY <3>1
    <2>3. t \in S => f[t] \in memHeldBar'[t]
      BY <1>a, <1>c, MemHeldBy
    <2>4. \A n : n \in memHeldBar[t] => n \in memHeldBar'[t]
      BY <2>1, MemHeldBy
    <2>5. \A n : n \in memHeldBar'[t] => n \in memHeldBar[t] \/ (t \in S /\ n = f[t])
      BY <2>2, MemHeldBy
    <2>6. CASE t \in S
      <3>1. \A n : n \in memHeldBar'[t] <=> n \in memHeldBar[t] \cup {f[t]}
        BY <2>3, <2>4, <2>5, <2>6
      <3>2. memHeldBar'[t] = memHeldBar[t] \cup {f[t]}
        BY <3>1
      <3> QED BY <2>6, <3>2
    <2>7. CASE t \notin S
      <3>1. \A n : n \in memHeldBar'[t] <=> n \in memHeldBar[t]
        BY <2>4, <2>5, <2>7
      <3>2. memHeldBar'[t] = memHeldBar[t]
        BY <3>1
      <3> QED BY <2>7, <3>2
    <2> QED BY <2>6, <2>7
  <1>7. memHeldBar' = [t \in MemTasks |-> IF t \in S THEN memHeldBar[t] \cup {f[t]} ELSE memHeldBar[t]]
    <2>1. memHeldBar' = [t \in MemTasks |-> memHeldBar'[t]]
      BY DEF memHeldBar
    <2> QED BY <1>6, <2>1
  <1> QED BY <1>1, <1>3, <1>5, <1>7 DEF MemStarts, MemAbstract!Place, memStBar, memOwnerBar, memHeldBar

(* The in-memory store implements the atomic one: a section that places    *)
(* tasks places only ready ones, on nodes with room, with their leases,    *)
(* whatever happened since the thread read the nodes and the leases; all   *)
(* other sections are its writes, yields, drops or nothing at all, and the *)
(* three of a claim are its Claim, Take and Lend, which ask nothing.       *)
THEOREM MemRefinesStore == MemSpec => MemImplementsStore
  <1>1. MemInit => MemAbstract!Init
    <2>1. ASSUME MemInit, NEW t \in MemTasks PROVE memHeldBar[t] = {}
      BY <2>1, MemHeldBy DEF MemInit, MemFree
    <2>2. ASSUME MemInit
          PROVE  /\ memStBar = [t \in MemTasks |-> "none"]
                 /\ memOwnerBar = [t \in MemTasks |-> MemAbstract!Nobody]
                 /\ memHeldBar = [t \in MemTasks |-> {}]
                 /\ memClaimed = {}
      <3>1. memHeldBar = [t \in MemTasks |-> memHeldBar[t]]
        BY DEF memHeldBar
      <3> QED BY <2>1, <2>2, <3>1 DEF MemInit, memStBar, memOwnerBar, MemAbstract!Nobody, MemNobody
    <2> QED BY <2>2 DEF MemAbstract!Init, memStBar, memOwnerBar, memHeldBar
  <1>2. ASSUME MemTypeOK, [MemNext]_memVars
        PROVE  [MemAbstract!Next]_<<memStBar, memOwnerBar, memHeldBar, memClaimed>>
    <2>1. CASE UNCHANGED memVars
      BY <2>1, MemHeldKept DEF memVars, memStBar, memOwnerBar
    <2>2. CASE MemNext
      <3>1. MemEffect
        BY <1>2, <2>2, MemStepEffect
      <3> QED
        BY <1>2, <3>1, MemAdmitRefines, MemDropRefines, MemWriteRefines, MemYieldRefines,
           MemClaimRefines, MemTakeRefines, MemLendRefines, MemPlaceRefines DEF MemEffect, MemAbstract!Next
    <2> QED BY <1>2, <2>1, <2>2
  <1>3. ASSUME MemTypeOK, [MemNext]_memVars
        PROVE  [MemAbstract!Next]_<<[t \in MemTasks |-> memTask[t].st],
                                    [t \in MemTasks |-> memTask[t].node],
                                    [t \in MemTasks |-> {memLease[l].node : l \in MemLive(t)}],
                                    memClaimed>>
    BY <1>2, <1>3 DEF memStBar, memOwnerBar, memHeldBar
  <1> QED
    BY <1>1, <1>3, MemTypes, PTL DEF MemSpec, MemImplementsStore, MemAbstract!Spec

----------------------------------------------------------------------------
(* Sync: batches *)

HIDE MemAssumption

(* Every non-empty set of numbers has a least element. *)
LEMMA LeastNumber ==
  ASSUME NEW S \in SUBSET Nat, S # {}
  PROVE  \E x \in S : \A y \in S : x <= y
<1> DEFINE R == {p \in Nat \X Nat : p[1] < p[2]}
<1>1. IsWellFoundedOn(R, Nat)
  BY NatLessThanWellFounded DEF OpToRel
<1>2. \A x, y \in Nat : y < x => <<y, x>> \in R
  OBVIOUS
<1>3. \E x \in S : \A y \in S : <<y, x>> \notin R
  <2> HIDE DEF R
  <2> QED BY <1>1, WFMin
<1>4. PICK x \in S : \A y \in S : <<y, x>> \notin R
  BY <1>3
<1>5. \A y \in S : ~(y < x)
  <2> HIDE DEF R
  <2> QED BY <1>2, <1>4
<1> QED BY <1>5

(* The states a batch goes through are a function, so its end is one of    *)
(* them.                                                                   *)
LEMMA BatchRun ==
  ASSUME NEW h, NEW msgs, Len(msgs) \in Nat
  PROVE  \E run : /\ run = [i \in 0..Len(msgs) |-> IF i = 0 THEN h ELSE receive_single(run[i - 1], msgs[i])]
                  /\ receive_batch(h, msgs) = run[Len(msgs)]
<1> DEFINE F(i, g) == IF i = 0 THEN h ELSE receive_single(g[i - 1], msgs[i])
           Runs(k, g) == g = [i \in 0..k |-> F(i, g)]
           Stuck == {k \in Nat : ~\E g : Runs(k, g)}
<1>1. ASSUME NEW k \in Nat, \E g : Runs(k, g)
      PROVE  \E g : Runs(k + 1, g)
  <2>1. PICK g : Runs(k, g)
    BY <1>1
  <2> DEFINE next == [i \in 0..(k + 1) |-> IF i = k + 1 THEN receive_single(g[k], msgs[k + 1]) ELSE g[i]]
  <2>2. \A i \in 0..(k + 1) : next[i] = F(i, next)
    <3>1. \A i \in 0..k : next[i] = g[i]
      OBVIOUS
    <3>2. \A i \in 0..k : g[i] = F(i, g)
      BY <2>1
    <3>3. next[k + 1] = receive_single(g[k], msgs[k + 1]) /\ k + 1 # 0 /\ k + 1 - 1 = k /\ next[k] = g[k]
      OBVIOUS
    <3> HIDE DEF next
    <3>4. ASSUME NEW i \in 0..k PROVE next[i] = F(i, next)
      <4>1. CASE i = 0
        BY <3>1, <3>2, <4>1
      <4>2. CASE i # 0
        <5>1. i - 1 \in 0..k
          BY <4>2
        <5> QED BY <3>1, <3>2, <4>2, <5>1
      <4> QED BY <4>1, <4>2
    <3> QED BY <3>3, <3>4
  <2>3. next = [i \in 0..(k + 1) |-> next[i]]
    OBVIOUS
  <2> HIDE DEF next
  <2>4. Runs(k + 1, next)
    BY <2>2, <2>3
  <2> QED BY <2>4
<1>2. \E g : Runs(0, g)
  <2>1. Runs(0, [i \in 0..0 |-> h])
    OBVIOUS
  <2> QED BY <2>1
<1> HIDE DEF Runs
<1>3. Stuck = {}
  <2> SUFFICES ASSUME Stuck # {} PROVE FALSE
    OBVIOUS
  <2>1. PICK k \in Stuck : \A j \in Stuck : k <= j
    BY LeastNumber
  <2>2. k # 0
    BY <1>2
  <2>3. k - 1 \in Nat /\ k - 1 \notin Stuck /\ k - 1 + 1 = k
    BY <2>1, <2>2
  <2> QED BY <1>1, <2>3
<1>4. \E g : Runs(Len(msgs), g)
  BY <1>3
<1> DEFINE after == CHOOSE g : Runs(Len(msgs), g)
<1>5. Runs(Len(msgs), after)
  BY <1>4
<1>6. receive_batch(h, msgs) = after[Len(msgs)]
  BY DEF receive_batch, Runs
<1> HIDE DEF after
<1> QED BY <1>5, <1>6 DEF Runs

(* What every message keeps, the batch keeps. *)
LEMMA BatchKeeps ==
  ASSUME NEW G, NEW h \in G, NEW M, NEW msgs \in Seq(M),
         \A g \in G, i \in 1..Len(msgs) : receive_single(g, msgs[i]) \in G
  PROVE  receive_batch(h, msgs) \in G
<1>0. Len(msgs) \in Nat
  OBVIOUS
<1>1. PICK run : /\ run = [i \in 0..Len(msgs) |-> IF i = 0 THEN h ELSE receive_single(run[i - 1], msgs[i])]
                 /\ receive_batch(h, msgs) = run[Len(msgs)]
  BY <1>0, BatchRun
<1>2. run[0] = h /\ \A i \in 1..Len(msgs) : run[i] = receive_single(run[i - 1], msgs[i])
  BY <1>0, <1>1
<1> DEFINE Bad == {i \in 0..Len(msgs) : run[i] \notin G}
<1>3. Bad = {}
  <2> SUFFICES ASSUME Bad # {} PROVE FALSE
    OBVIOUS
  <2>0. Bad \in SUBSET Nat
    BY <1>0
  <2>1. PICK k \in Bad : \A j \in Bad : k <= j
    <3> HIDE DEF Bad
    <3> QED BY <2>0, LeastNumber
  <2>2. k \in 1..Len(msgs)
    BY <1>0, <1>2
  <2>3. k - 1 \in 0..Len(msgs) /\ k - 1 \notin Bad
    BY <1>0, <2>1, <2>2
  <2>4. run[k - 1] \in G
    BY <2>3
  <2>5. receive_single(run[k - 1], msgs[k]) \in G
    BY <2>2, <2>4
  <2>6. run[k] \notin G /\ run[k] = receive_single(run[k - 1], msgs[k])
    BY <1>2, <2>2
  <2> QED BY <2>5, <2>6
<1>4. Len(msgs) \in 0..Len(msgs) /\ Len(msgs) \notin Bad
  BY <1>0, <1>3
<1>5. run[Len(msgs)] \in G
  BY <1>4
<1> QED BY <1>1, <1>5

----------------------------------------------------------------------------
(* The federation's types *)

SyStatuses == SyTerminal \cup {"none", "pending", "ready", "running"}
SyRecs == [st : SyStatuses, tv : Nat]
SyTables == [SyTasks -> SyRecs]
SyIds == SyNodes \X Nat
SyMsgs == [id : SyIds, ver : Nat, task : SyTasks, st : SyStatuses, tv : Nat]
SyStates == [row : SyTables, ver : Nat, seen : Seq(SyIds)]
SyOuts == [kind : {"none"}, body : {<<>>}, tries : {0}]
          \cup [kind : {"batch"}, body : Seq(SyMsgs), tries : Nat]
          \cup [kind : {"full"}, body : SyTables, tries : Nat]

SyTypeInv ==
    /\ syStore \in {"sql", "memory"}
    /\ syRow \in [SyNodes -> SyTables]
    /\ syVer \in [SyNodes -> Nat]
    /\ sySeen \in [SyNodes -> Seq(SyIds)]
    /\ syQueue \in [SyNodes -> Seq(SyMsgs)]
    /\ syOut \in [SyNodes -> SyOuts]
    /\ syWire \in [SyNodes -> SUBSET SyMsgs]
    /\ syCount \in Nat

(* The messages there are: queued, in a call, or sent once. *)
SyKnown == {m \in SyMsgs : \E n \in SyNodes :
    \/ \E i \in DOMAIN syQueue[n] : syQueue[n][i] = m
    \/ syOut[n].kind = "batch" /\ \E i \in DOMAIN syOut[n].body : syOut[n].body[i] = m
    \/ m \in syWire[n]}

(* An identity is given once. *)
SyNamed(K, c) ==
    /\ \A m \in K : m.id[2] < c
    /\ \A m, k \in K : m.id = k.id => m.ver = k.ver

(* Nothing was applied twice, and the log has reached the version of       *)
(* everything that was.                                                    *)
SyClean(K, c) == {h \in SyStates :
    /\ \A i, j \in DOMAIN h.seen : h.seen[i] = h.seen[j] => i = j
    /\ \A i \in DOMAIN h.seen : h.seen[i][2] < c
    /\ \A i \in DOMAIN h.seen, m \in K : h.seen[i] = m.id => m.ver <= h.ver}

(* The rows that are no step back from the given ones. *)
SyOnward(rows) == {h \in SyStates : \A t \in SyTasks :
    /\ rows[t].st \in SyTerminal => h.row[t].st = rows[t].st
    /\ h.row[t].tv >= rows[t].tv}

SyInv ==
    /\ SyTypeInv
    /\ SyNamed(SyKnown, syCount)
    /\ \A n \in SyNodes : SyHere(n) \in SyClean(SyKnown, syCount)

(* A node has one peer. *)
LEMMA PeerOf == \A n \in SyNodes : SyPeer(n) \in SyNodes
  BY SyAssumption DEF SyPeer

----------------------------------------------------------------------------
(* The receiver *)

(* A message, if it is applied, changes a row and is noted. *)
LEMMA AppliedType ==
  ASSUME NEW h \in SyStates, NEW m \in SyMsgs
  PROVE  /\ SyApplied(h, m) \in SyStates
         /\ SyApplied(h, m).row = [h.row EXCEPT ![m.task] = SyMerged(h.row[m.task], m)]
         /\ SyApplied(h, m).ver = m.ver
         /\ SyApplied(h, m).seen = Append(h.seen, m.id)
<1>1. /\ h.row \in SyTables /\ h.seen \in Seq(SyIds) /\ m.task \in SyTasks
      /\ m.id \in SyIds /\ m.ver \in Nat /\ m.st \in SyStatuses /\ m.tv \in Nat
  BY DEF SyStates, SyMsgs
<1>2. h.row[m.task] \in SyRecs
  BY <1>1 DEF SyTables
<1>3. SyMerged(h.row[m.task], m) \in SyRecs
  BY <1>1, <1>2 DEF SyMerged, SyRecs
<1>4. [h.row EXCEPT ![m.task] = SyMerged(h.row[m.task], m)] \in SyTables
  BY <1>1, <1>3 DEF SyTables
<1>5. Append(h.seen, m.id) \in Seq(SyIds)
  BY <1>1
<1> QED BY <1>1, <1>4, <1>5 DEF SyApplied, SyStates

(* Both endpoints apply a message if it is ahead of the log. *)
LEMMA Received ==
  ASSUME NEW h, NEW m
  PROVE  /\ handle_sync_message(h, m) = IF m.ver <= h.ver THEN h ELSE SyApplied(h, m)
         /\ receive_single(h, m) = handle_sync_message(h, m)
  BY DEF handle_sync_message, receive_single

(* A message ahead of the log was not applied before. *)
LEMMA ReceiveClean ==
  ASSUME NEW K \in SUBSET SyMsgs, NEW c \in Nat, SyNamed(K, c),
         NEW h \in SyClean(K, c), NEW m \in K
  PROVE  handle_sync_message(h, m) \in SyClean(K, c)
<1>1. CASE m.ver <= h.ver
  BY <1>1, Received
<1>2. CASE ~(m.ver <= h.ver)
  <2> DEFINE g == SyApplied(h, m)
             n == Len(h.seen)
  <2>1. /\ h \in SyStates /\ m \in SyMsgs
        /\ m.ver \in Nat /\ h.ver \in Nat /\ h.seen \in Seq(SyIds) /\ m.id \in SyIds
    BY DEF SyClean, SyMsgs, SyStates
  <2>2. g \in SyStates /\ g.ver = m.ver /\ g.seen = Append(h.seen, m.id)
    BY <2>1, AppliedType
  <2>3. /\ n \in Nat /\ DOMAIN h.seen = 1..n /\ DOMAIN g.seen = 1..(n + 1)
        /\ g.seen[n + 1] = m.id /\ \A i \in 1..n : g.seen[i] = h.seen[i]
    BY <2>1, <2>2
  <2>4. /\ \A i, j \in 1..n : h.seen[i] = h.seen[j] => i = j
        /\ \A i \in 1..n : h.seen[i][2] < c
        /\ \A i \in 1..n, k \in K : h.seen[i] = k.id => k.ver <= h.ver
    BY <2>3 DEF SyClean
  <2>5. \A i \in 1..n : h.seen[i] # m.id
    BY <1>2, <2>4
  <2>6. m.id[2] < c /\ \A k \in K : m.id = k.id => m.ver = k.ver
    BY DEF SyNamed
  <2> HIDE DEF g, n
  <2>7. \A i, j \in 1..(n + 1) : g.seen[i] = g.seen[j] => i = j
    <3>1. \A i \in 1..(n + 1) : i \in 1..n \/ i = n + 1
      BY <2>3
    <3> QED BY <2>3, <2>4, <2>5, <3>1
  <2>8. ASSUME NEW i \in 1..(n + 1)
        PROVE  g.seen[i][2] < c /\ \A k \in K : g.seen[i] = k.id => k.ver <= g.ver
    <3>1. CASE i = n + 1
      <4>1. \A k \in K : k.ver \in Nat
        BY DEF SyMsgs
      <4> QED BY <2>2, <2>3, <2>6, <3>1, <4>1
    <3>2. CASE i \in 1..n
      <4>1. \A k \in K : k.ver \in Nat
        BY DEF SyMsgs
      <4> QED BY <1>2, <2>1, <2>2, <2>3, <2>4, <3>2, <4>1
    <3> QED BY <2>3, <3>1, <3>2
  <2>9. g \in SyClean(K, c)
    BY <2>2, <2>3, <2>7, <2>8 DEF SyClean
  <2> QED BY <1>2, <2>9, Received DEF g
<1> QED BY <1>1, <1>2

(* In memory a message takes no row back. *)
LEMMA ReceiveOnward ==
  ASSUME syStore = "memory", NEW rows \in SyTables, NEW h \in SyOnward(rows), NEW m \in SyMsgs
  PROVE  handle_sync_message(h, m) \in SyOnward(rows)
<1>1. CASE m.ver <= h.ver
  BY <1>1, Received
<1>2. CASE ~(m.ver <= h.ver)
  <2> DEFINE g == SyApplied(h, m)
  <2>1. h \in SyStates /\ h.row \in SyTables
    BY DEF SyOnward, SyStates
  <2>2. g \in SyStates /\ g.row = [h.row EXCEPT ![m.task] = SyMerged(h.row[m.task], m)]
    BY <2>1, AppliedType
  <2> HIDE DEF g
  <2>3. ASSUME NEW t \in SyTasks
        PROVE  /\ rows[t].st \in SyTerminal => g.row[t].st = rows[t].st
               /\ g.row[t].tv >= rows[t].tv
    <3>1. /\ rows[t].st \in SyTerminal => h.row[t].st = rows[t].st
          /\ h.row[t].tv >= rows[t].tv
      BY DEF SyOnward
    <3>2. /\ h.row[t] \in SyRecs /\ rows[t] \in SyRecs /\ m.tv \in Nat /\ m.task \in SyTasks
      BY <2>1 DEF SyTables, SyMsgs
    <3>3. h.row[t].tv \in Nat /\ rows[t].tv \in Nat
      BY <3>2 DEF SyRecs
    <3>4. CASE t # m.task
      <4>1. g.row[t] = h.row[t]
        BY <2>1, <2>2, <3>4 DEF SyTables
      <4> QED BY <3>1, <4>1
    <3>5. CASE t = m.task
      <4>1. g.row[t] = SyMerged(h.row[t], m)
        BY <2>1, <2>2, <3>2, <3>5 DEF SyTables
      <4>2. /\ SyMerged(h.row[t], m).tv >= h.row[t].tv
            /\ h.row[t].st \in SyTerminal => SyMerged(h.row[t], m).st = h.row[t].st
        BY <3>2, <3>3 DEF SyMerged, SyAbsent, SyTerminal
      <4>3. SyMerged(h.row[t], m) \in SyRecs
        BY <2>1, <2>2, <3>2, <4>1 DEF SyStates, SyTables
      <4>4. SyMerged(h.row[t], m).tv \in Nat
        BY <4>3 DEF SyRecs
      <4> QED BY <3>1, <3>3, <4>1, <4>2, <4>4
    <3> QED BY <3>4, <3>5
  <2>4. g \in SyOnward(rows)
    BY <2>2, <2>3 DEF SyOnward
  <2> QED BY <1>2, <2>4, Received DEF g
<1> QED BY <1>1, <1>2

(* What a status write makes of a row. *)
LEMMA SetType ==
  ASSUME NEW r \in SyRecs, NEW s \in SyStatuses
  PROVE  /\ SySetStatus(r, s) \in SyRecs /\ SySetStatus(r, s).tv >= r.tv
         /\ syStore = "memory" /\ r.st \in SyTerminal => SySetStatus(r, s) = r
  BY DEF SySetStatus, SyRecs

(* A snapshot leaves the log alone, and in memory takes no row back. *)
LEMMA FullEffect ==
  ASSUME NEW h \in SyStates, NEW rows \in SyTables
  PROVE  /\ receive_full_state(h, rows) \in SyStates
         /\ receive_full_state(h, rows).ver = h.ver
         /\ receive_full_state(h, rows).seen = h.seen
         /\ syStore = "memory" => receive_full_state(h, rows) \in SyOnward(h.row)
<1> DEFINE New(t) ==
        IF rows[t] = SyAbsent THEN h.row[t]
        ELSE IF h.row[t] = SyAbsent
        THEN IF rows[t].st = "pending" THEN SyCreated ELSE SySetStatus(SyCreated, rows[t].st)
        ELSE IF rows[t].tv > h.row[t].tv THEN SySetStatus(h.row[t], rows[t].st)
        ELSE h.row[t]
<1>0. h.row \in SyTables /\ h = [row |-> h.row, ver |-> h.ver, seen |-> h.seen]
      /\ h.ver \in Nat /\ h.seen \in Seq(SyIds)
  BY DEF SyStates
<1>1. receive_full_state(h, rows) = [row |-> [t \in SyTasks |-> New(t)], ver |-> h.ver, seen |-> h.seen]
  BY <1>0 DEF receive_full_state
<1>2. SyCreated \in SyRecs /\ SyAbsent \in SyRecs /\ SyAbsent.tv = 0 /\ SyAbsent.st \notin SyTerminal
  BY DEF SyCreated, SyAbsent, SyRecs, SyStatuses, SyTerminal
<1>3. ASSUME NEW t \in SyTasks
      PROVE  /\ New(t) \in SyRecs /\ New(t).tv >= h.row[t].tv
             /\ syStore = "memory" /\ h.row[t].st \in SyTerminal => New(t) = h.row[t]
  <2>1. h.row[t] \in SyRecs /\ rows[t] \in SyRecs
    BY <1>0 DEF SyTables
  <2>2. rows[t].st \in SyStatuses
    BY <2>1 DEF SyRecs
  <2>3. h.row[t].tv \in Nat /\ h.row[t].tv >= h.row[t].tv
    BY <2>1 DEF SyRecs
  <2>4. CASE h.row[t] = SyAbsent
    <3>1. New(t) \in SyRecs
      BY <1>2, <2>2, <2>4, SetType
    <3>2. New(t).tv \in Nat
      BY <3>1 DEF SyRecs
    <3> QED BY <1>2, <2>4, <3>1, <3>2
  <2>5. CASE h.row[t] # SyAbsent
    BY <2>1, <2>2, <2>3, <2>5, SetType
  <2> QED BY <2>4, <2>5
<1> HIDE DEF New
<1>4. [t \in SyTasks |-> New(t)] \in SyTables
  BY <1>3 DEF SyTables
<1>5. receive_full_state(h, rows) \in SyStates
  BY <1>0, <1>1, <1>4 DEF SyStates
<1>6. syStore = "memory" => receive_full_state(h, rows) \in SyOnward(h.row)
  BY <1>1, <1>3, <1>5 DEF SyOnward
<1> QED BY <1>1, <1>5, <1>6

(* A batch, message by message. *)
LEMMA BatchEffect ==
  ASSUME NEW K \in SUBSET SyMsgs, NEW c \in Nat, SyNamed(K, c), NEW h \in SyClean(K, c),
         NEW msgs \in Seq(SyMsgs), \A i \in DOMAIN msgs : msgs[i] \in K
  PROVE  /\ receive_batch(h, msgs) \in SyClean(K, c)
         /\ syStore = "memory" => receive_batch(h, msgs) \in SyOnward(h.row)
<1>1. DOMAIN msgs = 1..Len(msgs) /\ \A i \in DOMAIN msgs : msgs[i] \in SyMsgs
  OBVIOUS
<1>2. receive_batch(h, msgs) \in SyClean(K, c)
  <2>1. \A g \in SyClean(K, c), i \in 1..Len(msgs) : receive_single(g, msgs[i]) \in SyClean(K, c)
    BY <1>1, ReceiveClean, Received
  <2> QED BY <2>1, BatchKeeps
<1>3. ASSUME syStore = "memory" PROVE receive_batch(h, msgs) \in SyOnward(h.row)
  <2>1. h.row \in SyTables /\ h \in SyStates
    BY DEF SyClean, SyStates
  <2>2. h \in SyOnward(h.row)
    <3>1. \A t \in SyTasks : h.row[t].tv \in Nat
      BY <2>1 DEF SyTables, SyRecs
    <3> QED BY <2>1, <3>1 DEF SyOnward
  <2>3. \A g \in SyOnward(h.row), i \in 1..Len(msgs) : receive_single(g, msgs[i]) \in SyOnward(h.row)
    BY <1>1, <1>3, <2>1, ReceiveOnward, Received
  <2> QED BY <2>2, <2>3, BatchKeeps
<1> QED BY <1>2, <1>3

(* A snapshot. *)
LEMMA FullClean ==
  ASSUME NEW K \in SUBSET SyMsgs, NEW c \in Nat, NEW h \in SyClean(K, c), NEW rows \in SyTables
  PROVE  receive_full_state(h, rows) \in SyClean(K, c)
<1>1. h \in SyStates
  BY DEF SyClean
<1>2. /\ receive_full_state(h, rows) \in SyStates
      /\ receive_full_state(h, rows).ver = h.ver
      /\ receive_full_state(h, rows).seen = h.seen
  BY <1>1, FullEffect
<1> QED BY <1>2 DEF SyClean

----------------------------------------------------------------------------
(* The steps *)

SyRowsOnward ==
    syStore = "memory" =>
        \A n \in SyNodes, t \in SyTasks :
            /\ syRow[n][t].st \in SyTerminal => syRow'[n][t].st = syRow[n][t].st
            /\ syRow'[n][t].tv >= syRow[n][t].tv

(* What a node holds after a delivery. *)
LEMMA LandsEffect ==
  ASSUME SyInv, NEW n \in SyNodes, NEW h \in SyClean(SyKnown, syCount), SyLands(n, h),
         syStore = "memory" => h \in SyOnward(syRow[n])
  PROVE  /\ syRow' \in [SyNodes -> SyTables] /\ syVer' \in [SyNodes -> Nat]
         /\ sySeen' \in [SyNodes -> Seq(SyIds)]
         /\ \A k \in SyNodes : SyHere(k)' \in SyClean(SyKnown, syCount)
         /\ SyRowsOnward
<1>1. h \in SyStates /\ h.row \in SyTables /\ h.ver \in Nat /\ h.seen \in Seq(SyIds)
      /\ h = [row |-> h.row, ver |-> h.ver, seen |-> h.seen]
  BY DEF SyClean, SyStates
<1>2. /\ syRow' \in [SyNodes -> SyTables] /\ syVer' \in [SyNodes -> Nat]
      /\ sySeen' \in [SyNodes -> Seq(SyIds)]
      /\ syRow'[n] = h.row /\ syVer'[n] = h.ver /\ sySeen'[n] = h.seen
      /\ \A k \in SyNodes \ {n} : syRow'[k] = syRow[k] /\ syVer'[k] = syVer[k] /\ sySeen'[k] = sySeen[k]
  BY <1>1 DEF SyInv, SyTypeInv, SyLands
<1>3. SyHere(n)' = h /\ \A k \in SyNodes \ {n} : SyHere(k)' = SyHere(k)
  BY <1>1, <1>2 DEF SyHere
<1>4. \A k \in SyNodes : SyHere(k)' \in SyClean(SyKnown, syCount)
  BY <1>3 DEF SyInv
<1>5. ASSUME syStore = "memory", NEW k \in SyNodes, NEW t \in SyTasks
      PROVE  /\ syRow[k][t].st \in SyTerminal => syRow'[k][t].st = syRow[k][t].st
             /\ syRow'[k][t].tv >= syRow[k][t].tv
  <2>1. CASE k = n
    BY <1>2, <1>5, <2>1 DEF SyOnward
  <2>2. CASE k # n
    <3>1. syRow[k][t].tv \in Nat
      BY DEF SyInv, SyTypeInv, SyTables, SyRecs
    <3> QED BY <1>2, <2>2, <3>1
  <2> QED BY <2>1, <2>2
<1> QED BY <1>2, <1>4, <1>5 DEF SyRowsOnward

(* Fewer messages, and a count that grows, change nothing. *)
LEMMA CleanMore ==
  ASSUME NEW K, NEW L \in SUBSET K, NEW c \in Nat, NEW d \in Nat, c <= d, K \in SUBSET SyMsgs
  PROVE  SyClean(K, c) \subseteq SyClean(L, d) /\ (SyNamed(K, c) => SyNamed(L, d))
<1>1. SyNamed(K, c) => SyNamed(L, d)
  <2>1. \A m \in L : m.id[2] \in Nat
    BY DEF SyMsgs, SyIds
  <2> QED BY <2>1 DEF SyNamed
<1>2. ASSUME NEW h \in SyClean(K, c) PROVE h \in SyClean(L, d)
  <2>1. \A i \in DOMAIN h.seen : h.seen[i][2] \in Nat
    BY DEF SyClean, SyStates, SyIds
  <2> QED BY <2>1 DEF SyClean
<1> QED BY <1>1, <1>2

(* queue_task_event: a new identity, on a row that does not step back. *)
LEMMA QueueInv ==
  ASSUME SyInv, NEW n \in SyNodes, NEW t \in SyTasks,
         NEW s \in {"ready", "running"} \cup SyTerminal, queue_task_event(n, t, s)
  PROVE  SyInv' /\ SyRowsOnward
<1> DEFINE old == syRow[n][t]
           new == IF old = SyAbsent THEN SyCreated ELSE SySetStatus(old, s)
           m == [id |-> <<n, syCount>>, ver |-> syVer[n] + 1, task |-> t, st |-> new.st, tv |-> new.tv]
<1>1. /\ syRow' = [syRow EXCEPT ![n][t] = new]
      /\ syQueue' = [syQueue EXCEPT ![n] = Append(syQueue[n], m)]
      /\ syCount' = syCount + 1
      /\ UNCHANGED <<syStore, syVer, syOut, syWire, sySeen>>
  BY DEF queue_task_event, SyCall
<1>2. old \in SyRecs /\ old.tv \in Nat /\ s \in SyStatuses
  BY DEF SyInv, SyTypeInv, SyTables, SyRecs, SyStatuses
<1>3. /\ new \in SyRecs /\ new.st \in SyStatuses /\ new.tv \in Nat /\ new.tv >= old.tv
      /\ syStore = "memory" /\ old.st \in SyTerminal => new.st = old.st
  <2>1. CASE old = SyAbsent
    BY <2>1 DEF SyAbsent, SyCreated, SyRecs, SyStatuses, SyTerminal
  <2>2. CASE old # SyAbsent
    <3>1. new \in SyRecs /\ new.tv >= old.tv /\ (syStore = "memory" /\ old.st \in SyTerminal => new = old)
      BY <1>2, <2>2, SetType
    <3> QED BY <3>1 DEF SyRecs
  <2> QED BY <2>1, <2>2
<1> HIDE DEF new
<1>4. m \in SyMsgs /\ m.id = <<n, syCount>>
  BY <1>3 DEF SyMsgs, SyIds, SyInv, SyTypeInv
<1> HIDE DEF m
<1>5. SyTypeInv'
  <2>1. syRow' \in [SyNodes -> SyTables]
    BY <1>1, <1>3 DEF SyInv, SyTypeInv, SyTables
  <2>2. syQueue' \in [SyNodes -> Seq(SyMsgs)]
    BY <1>1, <1>4 DEF SyInv, SyTypeInv
  <2> QED BY <1>1, <2>1, <2>2 DEF SyInv, SyTypeInv
<1>6. SyKnown' \subseteq SyKnown \cup {m}
  <2> SUFFICES ASSUME NEW k \in SyKnown', k # m PROVE k \in SyKnown
    OBVIOUS
  <2>1. PICK x \in SyNodes :
          \/ \E i \in DOMAIN syQueue'[x] : syQueue'[x][i] = k
          \/ syOut[x].kind = "batch" /\ \E i \in DOMAIN syOut[x].body : syOut[x].body[i] = k
          \/ k \in syWire[x]
    BY <1>1 DEF SyKnown
  <2>2. ASSUME NEW i \in DOMAIN syQueue'[x], syQueue'[x][i] = k
        PROVE  i \in DOMAIN syQueue[x] /\ syQueue[x][i] = k
    <3>1. syQueue[x] \in Seq(SyMsgs)
      BY DEF SyInv, SyTypeInv
    <3>2. syQueue'[x] = IF x = n THEN Append(syQueue[x], m) ELSE syQueue[x]
      BY <1>1 DEF SyInv, SyTypeInv
    <3> QED BY <1>4, <2>2, <3>1, <3>2
  <2>3. k \in SyMsgs
    BY DEF SyKnown
  <2> QED BY <2>1, <2>2, <2>3 DEF SyKnown
<1> DEFINE K == SyKnown \cup {m}
<1>7. K \in SUBSET SyMsgs /\ syCount \in Nat /\ syCount + 1 \in Nat
  <2>1. SyKnown \in SUBSET SyMsgs
    BY DEF SyKnown
  <2> QED BY <1>4, <2>1 DEF SyInv, SyTypeInv
<1>8. SyNamed(K, syCount + 1)
  <2>1. \A k \in SyKnown : k.id[2] < syCount /\ k.id[2] \in Nat
    BY DEF SyInv, SyNamed, SyKnown, SyMsgs, SyIds
  <2>2. \A k \in SyKnown : k.id # m.id
    BY <1>4, <1>7, <2>1
  <2>3. m.id[2] = syCount
    BY <1>4
  <2> QED BY <1>7, <2>1, <2>2, <2>3 DEF SyInv, SyNamed
<1>9. \A k \in SyNodes : SyHere(k)' \in SyClean(K, syCount + 1)
  <2> SUFFICES ASSUME NEW k \in SyNodes PROVE SyHere(k)' \in SyClean(K, syCount + 1)
    OBVIOUS
  <2>1. SyHere(k) \in SyClean(SyKnown, syCount)
    BY DEF SyInv
  <2>2. SyHere(k)' \in SyStates /\ SyHere(k)'.seen = SyHere(k).seen /\ SyHere(k)'.ver = SyHere(k).ver
    BY <1>1, <1>5 DEF SyHere, SyStates, SyTypeInv
  <2>3. \A i \in DOMAIN SyHere(k).seen : SyHere(k).seen[i][2] < syCount /\ SyHere(k).seen[i][2] \in Nat
    BY <2>1 DEF SyClean, SyStates, SyIds
  <2>4. \A i \in DOMAIN SyHere(k).seen : SyHere(k).seen[i] # m.id
    BY <1>4, <1>7, <2>3
  <2> QED BY <1>7, <2>1, <2>2, <2>3, <2>4 DEF SyClean
<1>10. SyNamed(K, syCount + 1) /\ SyNamed(SyKnown', syCount')
  <2>1. syCount + 1 <= syCount + 1
    BY <1>7
  <2> QED BY <1>1, <1>6, <1>7, <1>8, <2>1, CleanMore
<1>11. \A k \in SyNodes : SyHere(k)' \in SyClean(SyKnown', syCount')
  <2>1. syCount + 1 <= syCount + 1
    BY <1>7
  <2>2. SyClean(K, syCount + 1) \subseteq SyClean(SyKnown', syCount + 1)
    BY <1>6, <1>7, <2>1, CleanMore
  <2> QED BY <1>1, <1>9, <2>2
<1>12. SyRowsOnward
  <2> SUFFICES ASSUME syStore = "memory", NEW k \in SyNodes, NEW u \in SyTasks
               PROVE  /\ syRow[k][u].st \in SyTerminal => syRow'[k][u].st = syRow[k][u].st
                      /\ syRow'[k][u].tv >= syRow[k][u].tv
    BY DEF SyRowsOnward
  <2>1. syRow[k][u].tv \in Nat
    BY DEF SyInv, SyTypeInv, SyTables, SyRecs
  <2>2. syRow'[k][u] = IF k = n /\ u = t THEN new ELSE syRow[k][u]
    BY <1>1 DEF SyInv, SyTypeInv, SyTables
  <2> QED BY <1>3, <2>1, <2>2
<1> QED BY <1>5, <1>10, <1>11, <1>12 DEF SyInv

(* What leaves rows and logs alone and makes no message. *)
LEMMA QuietInv ==
  ASSUME SyInv, SyTypeInv', SyKnown' \subseteq SyKnown, syCount' >= syCount,
         UNCHANGED <<syStore, syRow, syVer, sySeen>>
  PROVE  SyInv' /\ SyRowsOnward
<1>1. SyKnown \in SUBSET SyMsgs /\ syCount \in Nat /\ syCount' \in Nat
  BY DEF SyKnown, SyInv, SyTypeInv
<1>2. SyNamed(SyKnown', syCount') /\ SyClean(SyKnown, syCount) \subseteq SyClean(SyKnown', syCount')
  BY <1>1, CleanMore DEF SyInv
<1>3. \A k \in SyNodes : SyHere(k)' = SyHere(k)
  BY DEF SyHere
<1>4. SyRowsOnward
  <2>1. \A k \in SyNodes, u \in SyTasks : syRow[k][u].tv \in Nat
    BY DEF SyInv, SyTypeInv, SyTables, SyRecs
  <2> QED BY <2>1 DEF SyRowsOnward
<1> QED BY <1>2, <1>3, <1>4 DEF SyInv

(* _do_delta_sync moves the queue into a call and onto the wire. *)
LEMMA DeltaInv ==
  ASSUME SyInv, NEW n \in SyNodes, _do_delta_sync(n)
  PROVE  SyInv' /\ SyRowsOnward
<1> DEFINE out == [kind |-> "batch", body |-> syQueue[n], tries |-> 0]
           moved == {syQueue[n][i] : i \in DOMAIN syQueue[n]}
<1>1. /\ syOut' = [syOut EXCEPT ![n] = out]
      /\ syQueue' = [syQueue EXCEPT ![n] = <<>>]
      /\ syWire' = [syWire EXCEPT ![SyPeer(n)] = syWire[SyPeer(n)] \cup moved]
      /\ UNCHANGED <<syStore, syRow, syVer, sySeen, syCount>>
  BY DEF _do_delta_sync
<1>2. syQueue[n] \in Seq(SyMsgs) /\ moved \in SUBSET SyMsgs /\ SyPeer(n) \in SyNodes
  BY PeerOf DEF SyInv, SyTypeInv
<1>3. out \in SyOuts /\ out.kind = "batch" /\ out.body = syQueue[n]
  BY <1>2 DEF SyOuts
<1>4. \A m \in moved : m \in SyKnown
  BY <1>2 DEF SyKnown
<1> HIDE DEF out, moved
<1>5. SyTypeInv'
  BY <1>1, <1>2, <1>3 DEF SyInv, SyTypeInv
<1>6. SyKnown' \subseteq SyKnown
  <2> SUFFICES ASSUME NEW k \in SyKnown' PROVE k \in SyKnown
    OBVIOUS
  <2>0. k \in SyMsgs
    BY DEF SyKnown
  <2>1. PICK x \in SyNodes :
          \/ \E i \in DOMAIN syQueue'[x] : syQueue'[x][i] = k
          \/ syOut'[x].kind = "batch" /\ \E i \in DOMAIN syOut'[x].body : syOut'[x].body[i] = k
          \/ k \in syWire'[x]
    BY DEF SyKnown
  <2>2. /\ syQueue'[x] = IF x = n THEN <<>> ELSE syQueue[x]
        /\ syOut'[x] = IF x = n THEN out ELSE syOut[x]
        /\ syWire'[x] = IF x = SyPeer(n) THEN syWire[x] \cup moved ELSE syWire[x]
    BY <1>1 DEF SyInv, SyTypeInv
  <2>3. ASSUME NEW i \in DOMAIN syQueue'[x], syQueue'[x][i] = k
        PROVE  k \in SyKnown
    BY <2>0, <2>2, <2>3 DEF SyKnown
  <2>4. ASSUME syOut'[x].kind = "batch", NEW i \in DOMAIN syOut'[x].body, syOut'[x].body[i] = k
        PROVE  k \in SyKnown
    BY <1>3, <2>0, <2>2, <2>4 DEF SyKnown
  <2>5. ASSUME k \in syWire'[x] PROVE k \in SyKnown
    BY <1>4, <2>0, <2>2, <2>5 DEF SyKnown
  <2> QED BY <2>1, <2>3, <2>4, <2>5
<1>7. syCount' >= syCount
  BY <1>1 DEF SyInv, SyTypeInv
<1> QED BY <1>1, <1>5, <1>6, <1>7, QuietInv

(* _do_full_sync begins a call with a snapshot. *)
LEMMA SnapshotInv ==
  ASSUME SyInv, NEW n \in SyNodes, _do_full_sync(n)
  PROVE  SyInv' /\ SyRowsOnward
<1> DEFINE out == [kind |-> "full", body |-> syRow[n], tries |-> 0]
<1>1. /\ syOut' = [syOut EXCEPT ![n] = out] /\ syCount' = syCount + 1
      /\ UNCHANGED <<syStore, syRow, syVer, syQueue, syWire, sySeen>>
  BY DEF _do_full_sync, SyCall
<1>2. out \in SyOuts /\ out.kind = "full"
  BY DEF SyOuts, SyInv, SyTypeInv
<1> HIDE DEF out
<1>3. SyTypeInv' /\ syCount' >= syCount
  BY <1>1, <1>2 DEF SyInv, SyTypeInv
<1>4. SyKnown' \subseteq SyKnown
  <2>1. \A x \in SyNodes : syOut'[x] = IF x = n THEN out ELSE syOut[x]
    BY <1>1 DEF SyInv, SyTypeInv
  <2> QED BY <1>1, <1>2, <2>1 DEF SyKnown
<1> QED BY <1>1, <1>3, <1>4, QuietInv

(* A delivery, whoever made it. *)
LEMMA LandsInv ==
  ASSUME SyInv, NEW n \in SyNodes, NEW h \in SyClean(SyKnown, syCount), SyLands(n, h),
         syStore = "memory" => h \in SyOnward(syRow[n]),
         syOut' \in [SyNodes -> SyOuts], SyKnown' \subseteq SyKnown,
         syCount' \in Nat, syCount' >= syCount,
         UNCHANGED <<syStore, syQueue, syWire>>
  PROVE  SyInv' /\ SyRowsOnward
<1>1. /\ syRow' \in [SyNodes -> SyTables] /\ syVer' \in [SyNodes -> Nat]
      /\ sySeen' \in [SyNodes -> Seq(SyIds)]
      /\ \A k \in SyNodes : SyHere(k)' \in SyClean(SyKnown, syCount)
      /\ SyRowsOnward
  BY LandsEffect
<1>2. SyTypeInv'
  BY <1>1 DEF SyInv, SyTypeInv
<1>3. SyKnown \in SUBSET SyMsgs /\ syCount \in Nat
  BY DEF SyKnown, SyInv, SyTypeInv
<1>4. SyNamed(SyKnown', syCount') /\ SyClean(SyKnown, syCount) \subseteq SyClean(SyKnown', syCount')
  BY <1>3, CleanMore DEF SyInv
<1> QED BY <1>1, <1>2, <1>4 DEF SyInv

(* An attempt of a call. *)
LEMMA SendInv ==
  ASSUME SyInv, NEW n \in SyNodes, NEW lands \in BOOLEAN, NEW answered \in BOOLEAN,
         send(n, lands, answered)
  PROVE  SyInv' /\ SyRowsOnward
<1> DEFINE out == syOut[n]
           here == SyHere(SyPeer(n))
           h == IF ~lands THEN here
                ELSE IF out.kind = "batch" THEN receive_batch(here, out.body)
                ELSE receive_full_state(here, out.body)
           next == IF (lands /\ answered) \/ out.tries + 1 = SyTries THEN SyQuiet
                   ELSE [out EXCEPT !.tries = out.tries + 1]
<1>1. /\ out # SyQuiet /\ SyLands(SyPeer(n), h) /\ syOut' = [syOut EXCEPT ![n] = next]
      /\ UNCHANGED <<syStore, syQueue, syWire, syCount>>
  BY DEF send
<1>2. SyPeer(n) \in SyNodes /\ here \in SyClean(SyKnown, syCount) /\ here \in SyStates
      /\ here.row = syRow[SyPeer(n)]
  BY PeerOf DEF SyInv, SyClean, SyHere
<1>3. SyKnown \in SUBSET SyMsgs /\ syCount \in Nat /\ SyNamed(SyKnown, syCount) /\ out \in SyOuts
  BY DEF SyKnown, SyInv, SyTypeInv
<1>4. /\ out.kind = "batch" => out.body \in Seq(SyMsgs) /\ \A i \in DOMAIN out.body : out.body[i] \in SyKnown
      /\ out.kind \notin {"batch", "none"} => out.body \in SyTables
  BY <1>3 DEF SyOuts, SyKnown
<1>5. out.kind # "none"
  <2>1. ASSUME out.kind = "none" PROVE out = SyQuiet
    BY <1>3, <2>1 DEF SyOuts, SyQuiet
  <2> QED BY <1>1, <2>1
<1>6. h \in SyClean(SyKnown, syCount) /\ (syStore = "memory" => h \in SyOnward(here.row))
  <2>1. CASE ~lands
    <3>1. \A t \in SyTasks : here.row[t].tv \in Nat
      BY <1>2 DEF SyStates, SyTables, SyRecs
    <3> QED BY <1>2, <2>1, <3>1 DEF SyOnward
  <2>2. CASE lands /\ out.kind = "batch"
    <3> HIDE DEF here, out
    <3>1. /\ receive_batch(here, out.body) \in SyClean(SyKnown, syCount)
          /\ syStore = "memory" => receive_batch(here, out.body) \in SyOnward(here.row)
      BY <1>2, <1>3, <1>4, <2>2, BatchEffect
    <3> QED BY <2>2, <3>1
  <2>3. CASE lands /\ out.kind # "batch"
    <3> HIDE DEF here, out
    <3>1. out.body \in SyTables
      BY <1>4, <1>5, <2>3
    <3>2. /\ receive_full_state(here, out.body) \in SyClean(SyKnown, syCount)
          /\ syStore = "memory" => receive_full_state(here, out.body) \in SyOnward(here.row)
      BY <1>2, <1>3, <3>1, FullClean, FullEffect
    <3> QED BY <2>3, <3>2
  <2> QED BY <2>1, <2>2, <2>3
<1>7. next \in SyOuts /\ (next.kind = "batch" => out.kind = "batch" /\ next.body = out.body)
  <2>1. SyQuiet \in SyOuts /\ SyQuiet.kind = "none"
    BY DEF SyQuiet, SyOuts
  <2>2. /\ [out EXCEPT !.tries = out.tries + 1] \in SyOuts
        /\ [out EXCEPT !.tries = out.tries + 1].kind = out.kind
        /\ [out EXCEPT !.tries = out.tries + 1].body = out.body
    BY <1>3, <1>5 DEF SyOuts
  <2> QED BY <2>1, <2>2
<1> HIDE DEF h, next
<1>8. syOut' \in [SyNodes -> SyOuts] /\ \A x \in SyNodes : syOut'[x] = IF x = n THEN next ELSE syOut[x]
  BY <1>1, <1>7 DEF SyInv, SyTypeInv
<1>9. SyKnown' \subseteq SyKnown
  BY <1>1, <1>7, <1>8 DEF SyKnown
<1>10. syCount' \in Nat /\ syCount' >= syCount
  BY <1>1, <1>3
<1>11. syStore = "memory" => h \in SyOnward(syRow[SyPeer(n)])
  BY <1>2, <1>6
<1> HIDE DEF here, out
<1> QED BY <1>1, <1>2, <1>6, <1>8, <1>9, <1>10, <1>11, LandsInv

(* A copy that comes again. *)
LEMMA CopyInv ==
  ASSUME SyInv, NEW n \in SyNodes, NEW m \in syWire[n], sync_receive(n, m)
  PROVE  SyInv' /\ SyRowsOnward
<1> DEFINE here == SyHere(n)
           h == handle_sync_message(here, m)
<1>1. /\ SyLands(n, h) /\ syCount' = syCount + 1
      /\ UNCHANGED <<syStore, syQueue, syOut, syWire>>
  BY DEF sync_receive, SyCall
<1>2. here \in SyClean(SyKnown, syCount) /\ here \in SyStates /\ here.row = syRow[n]
  BY DEF SyInv, SyClean, SyHere
<1>3. SyKnown \in SUBSET SyMsgs /\ syCount \in Nat /\ SyNamed(SyKnown, syCount)
  BY DEF SyKnown, SyInv, SyTypeInv
<1>4. m \in SyKnown /\ m \in SyMsgs
  BY DEF SyKnown, SyInv, SyTypeInv
<1> HIDE DEF here
<1>5. h \in SyClean(SyKnown, syCount)
  BY <1>2, <1>3, <1>4, ReceiveClean
<1>6. syStore = "memory" => h \in SyOnward(syRow[n])
  <2>1. here.row \in SyTables
    BY <1>2 DEF SyStates
  <2>2. here \in SyOnward(here.row)
    <3>1. \A t \in SyTasks : here.row[t].tv \in Nat
      BY <2>1 DEF SyTables, SyRecs
    <3> QED BY <1>2, <3>1 DEF SyOnward
  <2> QED BY <1>2, <1>4, <2>1, <2>2, ReceiveOnward
<1> HIDE DEF h
<1>7. syOut' \in [SyNodes -> SyOuts] /\ SyKnown' \subseteq SyKnown /\ syCount' \in Nat /\ syCount' >= syCount
  BY <1>1, <1>3 DEF SyKnown, SyInv, SyTypeInv
<1> QED BY <1>1, <1>5, <1>6, <1>7, LandsInv

(* Every step keeps the invariant and takes no row back in memory. *)
LEMMA SyNextInv ==
  ASSUME SyInv, [SyNext]_syVars
  PROVE  SyInv' /\ SyRowsOnward
<1>1. CASE UNCHANGED syVars
  <2>1. SyTypeInv' /\ SyKnown' = SyKnown /\ syCount' >= syCount
    BY <1>1 DEF syVars, SyInv, SyTypeInv, SyKnown
  <2> QED BY <1>1, <2>1, QuietInv DEF syVars
<1>2. ASSUME NEW n \in SyNodes,
             \/ \E t \in SyTasks, s \in {"ready", "running"} \cup SyTerminal : queue_task_event(n, t, s)
             \/ _do_delta_sync(n) \/ _do_full_sync(n)
             \/ \E lands, answered \in BOOLEAN : send(n, lands, answered)
             \/ \E m \in syWire[n] : sync_receive(n, m)
      PROVE  SyInv' /\ SyRowsOnward
  BY <1>2, QueueInv, DeltaInv, SnapshotInv, SendInv, CopyInv
<1> QED BY <1>1, <1>2 DEF SyNext

(* Nothing is sent and nothing applied at first. *)
LEMMA SyInitInv == SyInit => SyInv
<1> SUFFICES ASSUME SyInit PROVE SyInv
  OBVIOUS
<1>1. SyAbsent \in SyRecs /\ SyQuiet \in SyOuts /\ SyQuiet.kind = "none"
  BY DEF SyAbsent, SyRecs, SyStatuses, SyQuiet, SyOuts
<1>2. SyTypeInv
  BY <1>1 DEF SyInit, SyTypeInv, SyTables
<1>3. SyKnown = {}
  BY <1>1 DEF SyInit, SyKnown
<1>4. \A n \in SyNodes : SyHere(n) \in SyStates /\ SyHere(n).seen = <<>>
  BY <1>2 DEF SyInit, SyTypeInv, SyHere, SyStates
<1> QED BY <1>2, <1>3, <1>4 DEF SyInv, SyNamed, SyClean

(* handle_sync_message compares versions: retries after a lost answer,     *)
(* late copies and copies by another endpoint apply no message twice.      *)
THEOREM SyncOnce == SySpec => []SyAppliedOnce
<1>1. SyInv => SyAppliedOnce
  BY DEF SyInv, SyClean, SyAppliedOnce, SyHere
<1>2. SyInv /\ [SyNext]_syVars => SyInv'
  BY SyNextInv
<1> QED BY SyInitInv, <1>1, <1>2, PTL DEF SySpec

(* handle_sync_message and receive_full_state of the in-memory store never *)
(* take a task back, whatever was lost, repeated or late.                  *)
THEOREM SyncOnward == SySpec => SyNeverBack
<1> DEFINE Onward ==
      syStore = "memory" =>
        \A n \in SyNodes, t \in SyTasks :
            /\ syRow[n][t].st \in SyTerminal => syRow'[n][t].st = syRow[n][t].st
            /\ syRow'[n][t].tv >= syRow[n][t].tv
<1>1. SyInv /\ [SyNext]_syVars => SyInv' /\ Onward
  BY SyNextInv DEF SyRowsOnward
<1> QED BY SyInitInv, <1>1, PTL DEF SySpec, SyNeverBack
=============================================================================
