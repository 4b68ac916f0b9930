------------------------------ MODULE MCStores ------------------------------
(* The scheduling pass, the two other backends and the federation between  *)
(* them share no state here: svc says which one a behaviour is about, and  *)
(* the others rest in their initial state.                                 *)
EXTENDS Scheduler, PgStore, MemStore, Sync, TLC

(* The scheduling pass: three tasks and two nodes.  Tasks 1 and 2 share a  *)
(* lane but not a band, and only task 2 needs the "gpu" that only n1 has;  *)
(* task 3 is in the band of task 1 and in no lane.  n1 has one slot and n2 *)
(* two, so that a pass can fill n1 and can spread over both.               *)
MCTasks == 1..3
MCNodes == {"n1", "n2"}
MCLanes == {"a"}
MCLane == <<"a", "a", "none">>
MCPriority == <<3, 1, 3>>
MCCreated == <<1, 2, 3>>
MCRequires == <<{}, {"gpu"}, {}>>
MCCaps == [n1 |-> {"gpu"}, n2 |-> {}]
MCMaxConcurrent == [n1 |-> 1, n2 |-> 2]
MCNodeRank == [n1 |-> 1, n2 |-> 2]

(* The stores: two tasks of one lane, the second waiting for the first;    *)
(* in memory also one of another lane and a second node.                   *)
MCPgCap == [n \in PgNodes |-> 1]
MCPgLane == [t \in PgTasks |-> 1]
MCPgDeps == [t \in PgTasks |-> IF t = "q" THEN {"p"} ELSE {}]
MCMemCap == [n \in MemNodes |-> 1]
MCMemLane == [t \in MemTasks |-> IF t = "r" THEN 2 ELSE 1]
MCMemDeps == [t \in MemTasks |-> IF t = "q" THEN {"p"} ELSE {}]

(* Callers of a store, and its nodes, are all alike. *)
MCAlike == Permutations(PgCallers) \cup Permutations(MemNodes)

VARIABLE svc

StInit ==
    /\ svc \in {"scheduler", "postgres", "memory", "sync"}
    /\ Init /\ PgInit /\ MemInit /\ SyInit
    /\ svc # "sync" => syStore = "sql"

StNext ==
    \/ svc = "scheduler" /\ Next /\ UNCHANGED <<svc, pgVars, memVars, syVars>>
    \/ svc = "postgres" /\ PgNext /\ UNCHANGED <<svc, vars, memVars, syVars>>
    \/ svc = "memory" /\ MemNext /\ UNCHANGED <<svc, vars, pgVars, syVars>>
    \/ svc = "sync" /\ SyNext /\ UNCHANGED <<svc, vars, pgVars, memVars>>

StSpec == StInit /\ [][StNext]_<<svc, vars, pgVars, memVars, syVars>>

=============================================================================
