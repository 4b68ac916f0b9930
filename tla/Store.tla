------------------------------- MODULE Store -------------------------------
(***************************************************************************)
(* What every backend of the cluster store promises the routers about      *)
(* placing tasks, as atomic steps.  The SQLite store keeps the promise by  *)
(* doing each call in one transaction under one lock; MemStore and PgStore *)
(* are shown to keep it with finer steps.  What it does not promise is     *)
(* here too: set_task_status and create_lease ask nothing, so a claim      *)
(* starts a task by no pass and on no count.                               *)
(***************************************************************************)
EXTENDS Naturals, FiniteSets

CONSTANTS Tasks, Nodes, Cap

VARIABLES
    st,     \* status of each task
    owner,  \* its assigned_to
    held,   \* nodes that hold an unexpired active lease of it
    claimed \* history: tasks written "running" since a pass last placed them

Nobody == "nobody"
Terminal == {"completed", "cancel_requested", "cancelled"}

(* The load that passes account for. *)
Load(n) == Cardinality({t \in Tasks \ claimed : st[t] = "running" /\ owner[t] = n})

Init ==
    /\ st = [t \in Tasks |-> "none"]
    /\ owner = [t \in Tasks |-> Nobody]
    /\ held = [t \in Tasks |-> {}]
    /\ claimed = {}

(* create_task, trigger_pending_tasks, set_dependencies. *)
Admit ==
    /\ \A t \in Tasks : \/ st'[t] = st[t]
                        \/ st[t] \in {"none", "pending", "ready"} /\ st'[t] \in {"pending", "ready"}
    /\ UNCHANGED <<owner, held, claimed>>

(* A scheduling pass: the tasks it places were ready, get their node and   *)
(* their lease in the same step, and no node gets more than it takes, what *)
(* was claimed aside.                                                      *)
Place(S, f) ==
    /\ \A t \in S : st[t] = "ready"
    /\ \A n \in Nodes : LET k == Cardinality({t \in S : f[t] = n})
                        IN  k > 0 => Load(n) + k <= Cap[n]
    /\ st' = [t \in Tasks |-> IF t \in S THEN "running" ELSE st[t]]
    /\ owner' = [t \in Tasks |-> IF t \in S THEN f[t] ELSE owner[t]]
    /\ held' = [t \in Tasks |-> IF t \in S THEN held[t] \cup {f[t]} ELSE held[t]]
    /\ claimed' = claimed \ S

(* unassign_task, requeue_task: back to ready, owned by nobody, unless the *)
(* task is closed; leases may go, none is made.                            *)
Yield(t) ==
    /\ st[t] \notin Terminal \cup {"none"}
    /\ st' = [st EXCEPT ![t] = "ready"]
    /\ owner' = [owner EXCEPT ![t] = Nobody]
    /\ \A u \in Tasks : held'[u] \subseteq held[u] /\ (u # t => held'[u] = held[u])
    /\ UNCHANGED claimed

(* set_task_status but to running, unblock_task, unblock_to_ready. *)
Write(t) ==
    /\ st[t] # "none"
    /\ \E s \in Terminal \cup {"blocked", "ready", "pending"} : st' = [st EXCEPT ![t] = s]
    /\ UNCHANGED <<owner, held, claimed>>

(* claim_task is three calls: set_task_status to running, which asks for   *)
(* no lease, no lane and no room; then the owner; then create_lease, which *)
(* extend and POST /leases call too.                                       *)
Claim(t) ==
    /\ st[t] # "none"
    /\ st' = [st EXCEPT ![t] = "running"]
    /\ claimed' = claimed \cup {t}
    /\ UNCHANGED <<owner, held>>

Take(t, n) ==
    /\ owner' = [owner EXCEPT ![t] = n]
    /\ UNCHANGED <<st, held, claimed>>

Lend(t, n) ==
    /\ held' = [held EXCEPT ![t] = @ \cup {n}]
    /\ UNCHANGED <<st, owner, claimed>>

(* Leases are revoked or run out. *)
Drop ==
    /\ \A t \in Tasks : held'[t] \subseteq held[t]
    /\ UNCHANGED <<st, owner, claimed>>

Next ==
    \/ Admit \/ Drop
    \/ \E t \in Tasks : Yield(t) \/ Write(t) \/ Claim(t) \/ \E n \in Nodes : Take(t, n) \/ Lend(t, n)
    \/ \E S \in SUBSET Tasks : \E f \in [S -> Nodes] : Place(S, f)

Spec == Init /\ [][Next]_<<st, owner, held, claimed>>
=============================================================================
