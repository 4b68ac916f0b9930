---------------------------- MODULE NodeRegistry ----------------------------
(***************************************************************************)
(* One node id of the cluster: its row on main (core/node_manager.py,      *)
(* routers/nodes.py), the heartbeat watchdog (core/watchdog.py), and the   *)
(* worker processes that claim the id, each with its single-instance lock  *)
(* (core/single_instance.py) and its connector (core/worker_connector.py). *)
(*                                                                         *)
(* A request is one step with its answer: handlers run one at a time, and  *)
(* of what a handler writes the watchdog sees only the columns its         *)
(* heartbeat transaction writes.  The watchdog's check is two steps, its   *)
(* snapshot and its write.                                                 *)
(*                                                                         *)
(* The heartbeat's age is a class: below degraded_after, below             *)
(* offline_after, beyond.  What a report says of disk, CPU, lanes and      *)
(* duplicates is one verdict: nothing wrong, something wrong, or nothing   *)
(* said (the field is omitted and the stored column stays).                *)
(***************************************************************************)
EXTENDS Naturals

CONSTANTS
    Instances,      \* worker processes that claim the node id
    Host,           \* the machine each runs on
    Older,          \* instances that send no instance token (before #899)
    Static,         \* capabilities of the configuration
    Probed,         \* capabilities declared while their probe passes (#867)
    Faults,         \* what may happen besides the protocol
    MaxLosses,      \* bound on requests or answers lost and restarts of main
    NoToken

ASSUME NodeAssumption ==
    /\ Older \subseteq Instances /\ NoToken \notin Instances
    /\ Static \cap Probed = {}
    /\ Faults \subseteq {"sleep", "outage", "amnesia", "ill", "silent", "probes"}
    /\ MaxLosses \in Nat

VARIABLES
    row,        \* the nodes row on main
    wd,         \* the watchdog: the status it is about to write, or "idle"
    proc,       \* processes: not running, running, suspended
    conn,       \* connectors: place, registered_id, declared capabilities
    says,       \* what the next report of the worker says of its health
    probe,      \* the probed capabilities whose probe passes now
    losses

vars == <<row, wd, proc, conn, says, probe, losses>>

Caps == Static \cup Probed
NodeStatus == {"online", "degraded", "offline"}
Row == [known : BOOLEAN, status : NodeStatus, age : {"fresh", "late", "gone"},
        token : Instances \cup {NoToken}, sick : BOOLEAN, caps : SUBSET Caps]
Connector == [pc : {"probe", "join", "beat"}, reg : BOOLEAN, declared : SUBSET Caps]

NoRow == [known |-> FALSE, status |-> "offline", age |-> "gone", token |-> NoToken,
          sick |-> FALSE, caps |-> {}]
Idle == [pc |-> "probe", reg |-> FALSE, declared |-> {}]

TypeOK ==
    /\ row \in Row
    /\ wd \in NodeStatus \cup {"idle"}
    /\ proc \in [Instances -> {"off", "up", "asleep"}]
    /\ conn \in [Instances -> Connector]
    /\ says \in {"well", "ill", "silent"}
    /\ probe \subseteq Probed
    /\ losses \in 0..MaxLosses

Init ==
    /\ row = NoRow
    /\ wd = "idle"
    /\ proc = [i \in Instances |-> "off"]
    /\ conn = [i \in Instances |-> Idle]
    /\ says = "well"
    /\ probe = Probed
    /\ losses = 0

----------------------------------------------------------------------------
(* Main *)

Token(i) == IF i \in Older THEN NoToken ELSE i

(* A reading below the floor or above the ceiling is stored; an omitted    *)
(* one keeps the stored column.                                            *)
Reading(old) == IF says = "silent" THEN old ELSE says = "ill"

(* Mutant: a report only ever adds to what is stored. *)
Mut_update_heartbeat(r) ==
    [r EXCEPT !.status = IF says = "ill" THEN "degraded" ELSE "online",
              !.age = "fresh", !.sick = Reading(@) \/ @]

(* update_heartbeat: the status follows this report alone. *)
update_heartbeat(r) ==
    [r EXCEPT !.status = IF says = "ill" THEN "degraded" ELSE "online",
              !.age = "fresh", !.sick = Reading(@)]

(* Mutant: the gate yields as soon as a beat is late. *)
Mut_DuplicateInstance(i) ==
    /\ row.known /\ row.token # NoToken /\ Token(i) \notin {NoToken, row.token}
    /\ row.age = "fresh"

(* The gate of join (#899): another token, and a heartbeat younger than    *)
(* offline_after.                                                          *)
DuplicateInstance(i) ==
    /\ row.known /\ row.token # NoToken /\ Token(i) \notin {NoToken, row.token}
    /\ row.age # "gone"

(* Mutant: a re-join leaves the capabilities as they were. *)
Mut_Joined(i) ==
    IF row.known
    THEN [update_heartbeat(row) EXCEPT !.token = IF i \in Older THEN @ ELSE i]
    ELSE [update_heartbeat(NoRow) EXCEPT !.known = TRUE, !.token = Token(i),
                                         !.caps = conn[i].declared]

(* join: a re-join is a heartbeat, then the capabilities if any are sent,  *)
(* then the token if one is; a new node gets a row.                        *)
Joined(i) ==
    IF row.known
    THEN [update_heartbeat(row) EXCEPT
            !.caps = IF conn[i].declared = {} THEN @ ELSE conn[i].declared,
            !.token = IF i \in Older THEN @ ELSE i]
    ELSE [update_heartbeat(NoRow) EXCEPT !.known = TRUE, !.token = Token(i),
                                         !.caps = conn[i].declared]

(* Mutant: offline is only looked at for a node that is not late. *)
Mut_Verdict(r) ==
    CASE r.age # "fresh" -> "degraded"
      [] r.age = "fresh" /\ r.sick -> "degraded"
      [] OTHER -> "online"

(* Mutant: a status the enumeration does not have. *)
Mut_VerdictStale(r) ==
    CASE r.age = "gone" -> "offline"
      [] r.age = "late" -> "stale"
      [] r.age = "fresh" /\ r.sick -> "degraded"
      [] OTHER -> "online"

(* Mutant: the branch on the stored readings left out. *)
Mut_VerdictReadings(r) ==
    CASE r.age = "gone" -> "offline"
      [] r.age = "late" -> "degraded"
      [] OTHER -> "online"

(* Watchdog._check *)
Verdict(r) ==
    CASE r.age = "gone" -> "offline"
      [] r.age = "late" -> "degraded"
      [] r.age = "fresh" /\ r.sick -> "degraded"
      [] OTHER -> "online"

(* The snapshot; a status is written only if it differs from the snapshot. *)
Check ==
    /\ wd = "idle" /\ row.known /\ Verdict(row) # row.status
    /\ wd' = Verdict(row)
    /\ UNCHANGED <<row, proc, conn, says, probe, losses>>

(* set_status, whatever the row says by now. *)
CheckWrite ==
    /\ wd # "idle"
    /\ row' = [row EXCEPT !.status = wd]
    /\ wd' = "idle"
    /\ UNCHANGED <<proc, conn, says, probe, losses>>

----------------------------------------------------------------------------
(* The worker's connector *)

Up(i) == proc[i] = "up"
Owner(i) == proc[i] # "off" /\ conn[i].reg
At(i, pc) == Up(i) /\ conn[i].pc = pc
Move(i, c) == conn' = [conn EXCEPT ![i] = c]
Lose == losses < MaxLosses /\ losses' = losses + 1

(* declared_capabilities *)
Declared == Static \cup probe

AfterProbe(i) == IF conn[i].reg THEN "beat" ELSE "join"

(* A cycle in which the probes are not due, or tell nothing that can be    *)
(* sent: nothing new, or the node is not registered.                       *)
SkipProbe(i) ==
    /\ At(i, "probe")
    /\ Move(i, [conn[i] EXCEPT !.pc = AfterProbe(i)])
    /\ UNCHANGED <<row, wd, proc, says, probe, losses>>

(* PATCH /nodes/{id}/capabilities: what was declared changes only with a   *)
(* good answer.  The answer is 404 when main has no row.                   *)
Reprobe(i) ==
    /\ At(i, "probe")
    /\ conn[i].reg /\ Declared # conn[i].declared
    /\ \/ /\ row.known
          /\ row' = [row EXCEPT !.caps = Declared]
          /\ Move(i, [conn[i] EXCEPT !.pc = "beat", !.declared = Declared])
          /\ UNCHANGED losses
       \/ /\ ~row.known
          /\ Move(i, [conn[i] EXCEPT !.pc = "beat"])
          /\ UNCHANGED <<row, losses>>
       \/ /\ Lose
          /\ row' \in {row, IF row.known THEN [row EXCEPT !.caps = Declared] ELSE row}
          /\ Move(i, [conn[i] EXCEPT !.pc = "beat"])
    /\ UNCHANGED <<wd, proc, says, probe>>

(* POST /nodes/join, retried in every cycle until it is accepted. *)
Join(i) ==
    /\ At(i, "join")
    /\ ~DuplicateInstance(i)
    /\ row' = Joined(i)
    /\ Move(i, [conn[i] EXCEPT !.pc = "beat", !.reg = TRUE])
    /\ UNCHANGED <<wd, proc, says, probe, losses>>

JoinRefused(i) ==
    /\ At(i, "join")
    /\ DuplicateInstance(i)
    /\ Move(i, [conn[i] EXCEPT !.pc = "probe"])
    /\ UNCHANGED <<row, wd, proc, says, probe, losses>>

JoinLost(i) ==
    /\ At(i, "join")
    /\ Lose
    /\ row' \in {row, IF DuplicateInstance(i) THEN row ELSE Joined(i)}
    /\ Move(i, [conn[i] EXCEPT !.pc = "probe"])
    /\ UNCHANGED <<wd, proc, says, probe>>

(* Mutant: the answer to a beat of an unknown node is "ok" (before #897). *)
Mut_Heartbeat(i) ==
    /\ At(i, "beat")
    /\ row' = IF row.known THEN update_heartbeat(row) ELSE row
    /\ Move(i, [conn[i] EXCEPT !.pc = "probe"])
    /\ UNCHANGED <<wd, proc, says, probe, losses>>

(* POST /nodes/heartbeat names the node and no token.  A beat main has no  *)
(* row for is answered "unknown_node" and the worker joins again (#897).   *)
Heartbeat(i) ==
    /\ At(i, "beat")
    /\ row' = IF row.known THEN update_heartbeat(row) ELSE row
    /\ Move(i, [conn[i] EXCEPT !.pc = "probe", !.reg = row.known])
    /\ UNCHANGED <<wd, proc, says, probe, losses>>

HeartbeatLost(i) ==
    /\ At(i, "beat")
    /\ Lose
    /\ row' \in {row, IF row.known THEN update_heartbeat(row) ELSE row}
    /\ Move(i, [conn[i] EXCEPT !.pc = "probe"])
    /\ UNCHANGED <<wd, proc, says, probe>>

----------------------------------------------------------------------------
(* Processes and clocks *)

(* acquire: the bind of the port derived from the node id fails while      *)
(* another process of this machine holds it, suspended or not.             *)
Acquirable(i) == \A j \in Instances : Host[j] = Host[i] => proc[j] = "off"

(* A process starts with a token of its own, fresh: not the one on main's  *)
(* row.  Its connector probes before it joins.                             *)
Start(i) ==
    /\ proc[i] = "off" /\ Acquirable(i) /\ row.token # i
    /\ proc' = [proc EXCEPT ![i] = "up"]
    /\ Move(i, [pc |-> "join", reg |-> FALSE, declared |-> Declared])
    /\ UNCHANGED <<row, wd, says, probe, losses>>

(* The process ends; the OS frees the port. *)
Exit(i) ==
    /\ proc[i] # "off"
    /\ proc' = [proc EXCEPT ![i] = "off"]
    /\ Move(i, Idle)
    /\ UNCHANGED <<row, wd, says, probe, losses>>

(* The machine is suspended and resumes. *)
Sleep(i) ==
    /\ "sleep" \in Faults /\ Up(i)
    /\ proc' = [proc EXCEPT ![i] = "asleep"]
    /\ UNCHANGED <<row, wd, conn, says, probe, losses>>

Wake(i) ==
    /\ proc[i] = "asleep"
    /\ proc' = [proc EXCEPT ![i] = "up"]
    /\ UNCHANGED <<row, wd, conn, says, probe, losses>>

(* The heartbeat grows older.  A registered worker that runs gets one      *)
(* through within offline_after (30 s, three beats) unless there is an     *)
(* outage; degraded_after (15 s) may pass between two beats.               *)
Beating == \E i \in Instances : Up(i) /\ conn[i].reg

Tick ==
    /\ row.known
    /\ \/ /\ row.age = "fresh"
          /\ row' = [row EXCEPT !.age = "late"]
       \/ /\ row.age = "late" /\ (Beating => "outage" \in Faults)
          /\ row' = [row EXCEPT !.age = "gone"]
    /\ UNCHANGED <<wd, proc, conn, says, probe, losses>>

(* Main restarts; its store may have lost the row. *)
MainRestart ==
    /\ "amnesia" \in Faults
    /\ losses < MaxLosses /\ losses' = losses + 1
    /\ row' \in {row, NoRow}
    /\ wd' = "idle"
    /\ UNCHANGED <<proc, conn, says, probe>>

(* The machine's condition, and what its probes find, change. *)
Condition(s) ==
    /\ s = "well" \/ s \in Faults
    /\ says # s
    /\ says' = s
    /\ UNCHANGED <<row, wd, proc, conn, probe, losses>>

ProbeFlips(c) ==
    /\ "probes" \in Faults
    /\ probe' = IF c \in probe THEN probe \ {c} ELSE probe \cup {c}
    /\ UNCHANGED <<row, wd, proc, conn, says, losses>>

----------------------------------------------------------------------------
Connect(i) ==
    \/ SkipProbe(i) \/ Reprobe(i) \/ Join(i) \/ JoinRefused(i) \/ JoinLost(i)
    \/ Heartbeat(i) \/ HeartbeatLost(i)

Next ==
    \/ \E i \in Instances : Connect(i) \/ Start(i) \/ Exit(i) \/ Sleep(i) \/ Wake(i)
    \/ Check \/ CheckWrite
    \/ Tick \/ MainRestart
    \/ \E s \in {"well", "ill", "silent"} : Condition(s)
    \/ \E c \in Probed : ProbeFlips(c)

Spec == Init /\ [][Next]_vars

(* The connectors and the watchdog keep running, the probes come due again *)
(* and again, and the heartbeat of a worker that does not beat grows old.  *)
Fairness ==
    /\ \A i \in Instances : WF_vars(Connect(i)) /\ SF_vars(Reprobe(i))
    /\ WF_vars(Check) /\ WF_vars(CheckWrite)
    /\ WF_vars(Tick /\ ~Beating)

FairSpec == Spec /\ Fairness

----------------------------------------------------------------------------
(* Properties *)

(* #899: no two processes are registered under the node id, on one machine *)
(* or on several, while every registered worker keeps beating.             *)
OneOwner == \A i, j \in Instances : Owner(i) /\ Owner(j) => i = j

(* #892, #879: a node kept out of scheduling for what it reported comes    *)
(* back only with a report that says otherwise.                            *)
SickStaysOut ==
    [][row.sick /\ row.status # "online" /\ row'.status = "online" => ~row'.sick]_vars

(* The watchdog: a node whose last report was bad does not stay online     *)
(* unless it reports better.                                               *)
SickLeaves ==
    row.sick /\ row.status = "online" ~> ~row.sick \/ row.status # "online"

(* A node id nobody serves any more is found offline.                      *)
DeadFound ==
    (\A i \in Instances : ~Up(i))
        ~> row.status = "offline" \/ \E i \in Instances : Up(i)

Alone(i) == Up(i) /\ \A j \in Instances \ {i} : proc[j] = "off"

(* #897, #899: a healthy worker that has the id for itself gets online,    *)
(* after a restart of main that lost its row, after the death of the       *)
(* process that held the id, and after lost answers.                       *)
AloneServed ==
    \A i \in Instances :
        Alone(i) /\ says = "well"
            ~> row.status = "online" \/ ~Alone(i) \/ says # "well"

(* And stays online while its beats come in time: what the watchdog writes *)
(* from an old snapshot is put right.                                      *)
StaysOnline ==
    \A i \in Instances :
        <>[](Alone(i) /\ says = "well" /\ row.age = "fresh") => <>[](row.status = "online")

(* #867: while no request is lost, a capability whose probe fails does not *)
(* stay declared for the worker that owns the node id.                     *)
CapsHonest ==
    [](losses = 0) =>
        \A i \in Instances, c \in Probed :
            Owner(i) /\ c \in row.caps /\ c \notin probe
                ~> ~(Owner(i) /\ Up(i)) \/ c \notin row.caps \/ c \in probe
=============================================================================
