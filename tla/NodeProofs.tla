----------------------------- MODULE NodeProofs -----------------------------
(***************************************************************************)
(* The duplicate-instance gate (#899) keeps one owner per node id for any  *)
(* number of processes and machines, as long as every worker sends a       *)
(* token, none is suspended, main keeps its rows and a registered worker's *)
(* beats arrive.  OneOwner is not inductive: that a newcomer is refused    *)
(* rests on the row naming the owner (OwnerOnRow) and on the row not being *)
(* stale while it has one (OwnerBeats).                                    *)
(***************************************************************************)
EXTENDS NodeRegistry, TLAPS

USE NodeAssumption

(* Off and beating processes: a process that is off is not registered, and *)
(* the beat is reached by registered ones only.                            *)
Placed ==
    \A i \in Instances :
        /\ proc[i] = "off" => ~conn[i].reg
        /\ conn[i].pc = "beat" => conn[i].reg

(* The row names its owner. *)
OwnerOnRow == \A i \in Instances : Owner(i) => row.known /\ row.token = i

(* A row with an owner is not stale, and no owner is suspended. *)
OwnerBeats == \A i \in Instances : proc[i] # "asleep" /\ (Owner(i) => row.age # "gone")

(* Every row carries a token. *)
RowNamed == row.known => row.token # NoToken

OwnerInv == Placed /\ OwnerOnRow /\ OwnerBeats /\ RowNamed

(* What the theorem assumes of the fleet. *)
Steady == Older = {} /\ Faults \cap {"sleep", "outage", "amnesia"} = {}

(* Where the steps that do more than move the place take a connector. *)
LEMMA ReprobeMoves ==
  ASSUME TypeOK, NEW i \in Instances, Reprobe(i)
  PROVE  \E c \in Connector : Move(i, c) /\ c.pc = "beat" /\ c.reg = conn[i].reg
<1> DEFINE c == [conn[i] EXCEPT !.pc = "beat", !.declared = Declared]
           d == [conn[i] EXCEPT !.pc = "beat"]
<1>1. Move(i, c) \/ Move(i, d)
  BY DEF Reprobe
<1>2. conn[i] \in Connector /\ Declared \in SUBSET Caps
  BY DEF TypeOK, Declared, Caps
<1>3. c \in Connector /\ c.pc = "beat" /\ c.reg = conn[i].reg
  BY <1>2 DEF Connector
<1>4. d \in Connector /\ d.pc = "beat" /\ d.reg = conn[i].reg
  BY <1>2 DEF Connector
<1> QED BY <1>1, <1>3, <1>4

(* The answer to a beat decides whether the worker stays registered. *)
LEMMA HeartbeatMoves ==
  ASSUME TypeOK, NEW i \in Instances, Heartbeat(i)
  PROVE  \E c \in Connector : Move(i, c) /\ c.pc = "probe" /\ c.reg = row.known
<1> DEFINE c(b) == [conn[i] EXCEPT !.pc = "probe", !.reg = b]
<1>1. Move(i, c(row.known))
  BY DEF Heartbeat
<1>2. conn[i] \in Connector /\ row.known \in BOOLEAN
  BY DEF TypeOK, Row
<1>3. \A b \in BOOLEAN : c(b) \in Connector /\ c(b).pc = "probe" /\ c(b).reg = b
  BY <1>2 DEF Connector
<1> QED BY <1>1, <1>2, <1>3

(* A report keeps the row a row and its owner. *)
LEMMA ReportKeeps ==
  ASSUME TypeOK, NEW r \in Row
  PROVE  /\ update_heartbeat(r) \in Row
         /\ update_heartbeat(r).known = r.known /\ update_heartbeat(r).token = r.token
         /\ update_heartbeat(r).caps = r.caps
         /\ update_heartbeat(r).age = "fresh"
BY DEF TypeOK, Row, NodeStatus, update_heartbeat, Reading

(* What join makes of the row. *)
LEMMA JoinedRow ==
  ASSUME TypeOK, NEW i \in Instances
  PROVE  /\ Joined(i) \in Row
         /\ Joined(i).known /\ Joined(i).age = "fresh"
         /\ i \notin Older => Joined(i).token = i
<1>0. NoRow \in Row /\ row \in Row /\ conn[i].declared \in SUBSET Caps
  BY DEF NoRow, Row, NodeStatus, TypeOK, Connector
<1>1. CASE row.known
  <2>1. update_heartbeat(row) \in Row /\ update_heartbeat(row).known
        /\ update_heartbeat(row).age = "fresh"
    BY <1>0, <1>1, ReportKeeps
  <2> QED BY <1>0, <1>1, <2>1 DEF Joined, Row
<1>2. CASE ~row.known
  <2>1. update_heartbeat(NoRow) \in Row /\ update_heartbeat(NoRow).age = "fresh"
    BY <1>0, ReportKeeps
  <2> QED BY <1>0, <1>2, <2>1 DEF Joined, Row, Token
<1> QED BY <1>1, <1>2

(* Every action keeps the types. *)
LEMMA TypeStep == TypeOK /\ [Next]_vars => TypeOK'
<1> SUFFICES ASSUME TypeOK, [Next]_vars PROVE TypeOK'
  OBVIOUS
<1>0. /\ row \in Row /\ NoRow \in Row
      /\ conn \in [Instances -> Connector] /\ Idle \in Connector
      /\ Declared \in SUBSET Caps
      /\ update_heartbeat(row) \in Row
  BY ReportKeeps DEF TypeOK, NoRow, Row, NodeStatus, Idle, Connector, Declared, Caps
<1>1. ASSUME NEW i \in Instances, Connect(i) PROVE TypeOK'
  <2>1. CASE SkipProbe(i)
    BY <1>0, <2>1 DEF TypeOK, SkipProbe, At, Move, AfterProbe, Connector
  <2>2. CASE Reprobe(i)
    <3>1. conn' \in [Instances -> Connector]
      BY <1>0, <2>2, ReprobeMoves DEF Move
    <3>2. row' \in Row
      BY <1>0, <2>2 DEF Reprobe, Row
    <3>3. losses' \in 0..MaxLosses
      BY <2>2 DEF TypeOK, Reprobe, Lose
    <3> QED BY <3>1, <3>2, <3>3, <2>2 DEF TypeOK, Reprobe
  <2>3. CASE Join(i)
    <3>1. conn' \in [Instances -> Connector]
      BY <1>0, <2>3 DEF Join, Move, Connector
    <3>2. row' \in Row
      BY <2>3, JoinedRow DEF Join
    <3> QED BY <3>1, <3>2, <2>3 DEF TypeOK, Join
  <2>4. CASE JoinRefused(i)
    BY <1>0, <2>4 DEF TypeOK, JoinRefused, Move, Connector
  <2>5. CASE JoinLost(i)
    <3>1. conn' \in [Instances -> Connector]
      BY <1>0, <2>5 DEF JoinLost, Move, Connector
    <3>2. row' \in Row
      BY <1>0, <2>5, JoinedRow DEF JoinLost
    <3>3. losses' \in 0..MaxLosses
      BY <2>5 DEF TypeOK, JoinLost, Lose
    <3> QED BY <3>1, <3>2, <3>3, <2>5 DEF TypeOK, JoinLost
  <2>6. CASE Heartbeat(i)
    <3>1. conn' \in [Instances -> Connector]
      BY <1>0, <2>6, HeartbeatMoves DEF Move
    <3>2. row' \in Row
      BY <1>0, <2>6 DEF Heartbeat
    <3> QED BY <3>1, <3>2, <2>6 DEF TypeOK, Heartbeat
  <2>7. CASE HeartbeatLost(i)
    <3>1. conn' \in [Instances -> Connector]
      BY <1>0, <2>7 DEF HeartbeatLost, Move, Connector
    <3>2. row' \in Row
      BY <1>0, <2>7 DEF HeartbeatLost
    <3>3. losses' \in 0..MaxLosses
      BY <2>7 DEF TypeOK, HeartbeatLost, Lose
    <3> QED BY <3>1, <3>2, <3>3, <2>7 DEF TypeOK, HeartbeatLost
  <2> QED BY <1>1, <2>1, <2>2, <2>3, <2>4, <2>5, <2>6, <2>7 DEF Connect
<1>2. ASSUME NEW i \in Instances, Start(i) \/ Exit(i) \/ Sleep(i) \/ Wake(i) PROVE TypeOK'
  <2>1. conn' \in [Instances -> Connector]
    <3>1. [pc |-> "join", reg |-> FALSE, declared |-> Declared] \in Connector
      BY <1>0 DEF Connector
    <3> QED BY <1>0, <3>1, <1>2 DEF Start, Exit, Sleep, Wake, Move
  <2>2. proc' \in [Instances -> {"off", "up", "asleep"}]
    BY <1>2 DEF TypeOK, Start, Exit, Sleep, Wake
  <2> QED BY <2>1, <2>2, <1>2 DEF TypeOK, Start, Exit, Sleep, Wake
<1>3. CASE Check
  BY <1>3 DEF TypeOK, Check, Verdict, NodeStatus
<1>4. CASE CheckWrite
  BY <1>0, <1>4 DEF TypeOK, CheckWrite, Row
<1>5. CASE Tick
  BY <1>0, <1>5 DEF TypeOK, Tick, Row
<1>6. CASE MainRestart
  BY <1>0, <1>6 DEF TypeOK, MainRestart
<1>7. CASE \E s \in {"well", "ill", "silent"} : Condition(s)
  BY <1>7 DEF TypeOK, Condition
<1>8. CASE \E c \in Probed : ProbeFlips(c)
  BY <1>8 DEF TypeOK, ProbeFlips
<1>9. CASE UNCHANGED vars
  BY <1>9 DEF TypeOK, vars
<1> QED BY <1>1, <1>2, <1>3, <1>4, <1>5, <1>6, <1>7, <1>8, <1>9 DEF Next

(* Initially the id has no row and no process. *)
LEMMA InitType == Init => TypeOK
BY DEF Init, TypeOK, NoRow, Row, NodeStatus, Idle, Connector

(* The node row, the connectors and the watchdog keep their types under    *)
(* every request, loss, restart and change of a worker's condition.        *)
THEOREM NodeTypeCorrect == Spec => []TypeOK
BY InitType, TypeStep, PTL DEF Spec

(* An accepted join finds no other owner: the row is new, or already the   *)
(* newcomer's, or stale.                                                   *)
LEMMA JoinFindsNoOther ==
  ASSUME TypeOK, OwnerInv, Steady, NEW i \in Instances, ~DuplicateInstance(i)
  PROVE  \A j \in Instances : Owner(j) => j = i
BY DEF OwnerInv, OwnerOnRow, OwnerBeats, RowNamed, Steady, DuplicateInstance, Token

(* No action makes a second owner. *)
LEMMA OwnerStep == Steady /\ TypeOK /\ OwnerInv /\ [Next]_vars => OwnerInv'
<1> SUFFICES ASSUME Steady, TypeOK, OwnerInv, [Next]_vars PROVE OwnerInv'
  OBVIOUS
<1>0. /\ row \in Row /\ conn \in [Instances -> Connector]
      /\ proc \in [Instances -> {"off", "up", "asleep"}]
  BY DEF TypeOK
<1>h. /\ update_heartbeat(row).known = row.known
      /\ update_heartbeat(row).token = row.token
      /\ update_heartbeat(row).age = "fresh"
  BY <1>0, ReportKeeps
<1> USE DEF OwnerInv, Placed, OwnerOnRow, OwnerBeats, RowNamed, Owner
<1>1. ASSUME NEW i \in Instances, Connect(i) PROVE OwnerInv'
  <2>1. CASE SkipProbe(i)
    BY <1>0, <2>1 DEF SkipProbe, At, Move, AfterProbe, Connector
  <2>2. CASE Reprobe(i)
    <3>1. row'.known = row.known /\ row'.token = row.token /\ row'.age = row.age
      BY <1>0, <2>2 DEF Reprobe, Row
    <3>2. PICK c \in Connector : Move(i, c) /\ c.pc = "beat" /\ c.reg = conn[i].reg
      BY <2>2, ReprobeMoves
    <3> QED BY <1>0, <3>1, <3>2, <2>2 DEF Reprobe, Move
  <2>3. CASE Join(i)
    <3>1. row'.known /\ row'.token = i /\ row'.age = "fresh"
      BY <2>3, JoinedRow DEF Join, Steady
    <3>2. \A j \in Instances : Owner(j) => j = i
      BY <2>3, JoinFindsNoOther DEF Join
    <3> QED BY <1>0, <3>1, <3>2, <2>3 DEF Join, At, Up, Move, Connector
  <2>4. CASE JoinRefused(i)
    BY <1>0, <2>4 DEF JoinRefused, Move, Connector
  <2>5. CASE JoinLost(i)
    <3>1. CASE row' = row
      BY <1>0, <3>1, <2>5 DEF JoinLost, Move, Connector
    <3>2. CASE row' # row
      <4>1. ~DuplicateInstance(i) /\ row' = Joined(i)
        BY <3>2, <2>5 DEF JoinLost
      <4>2. row'.known /\ row'.token = i /\ row'.age = "fresh"
        BY <4>1, JoinedRow DEF Steady
      <4>3. \A j \in Instances : Owner(j) => j = i
        BY <4>1, JoinFindsNoOther
      <4> QED BY <1>0, <4>2, <4>3, <2>5 DEF JoinLost, Move, Connector
    <3> QED BY <3>1, <3>2
  <2>6. CASE Heartbeat(i)
    <3>1. row.known /\ conn[i].reg
      BY <2>6 DEF Heartbeat, At, Up
    <3>2. PICK c \in Connector : Move(i, c) /\ c.pc = "probe" /\ c.reg = row.known
      BY <2>6, HeartbeatMoves
    <3>3. /\ row'.known /\ row'.token = row.token /\ row'.age = "fresh"
          /\ proc' = proc
      BY <1>h, <3>1, <2>6 DEF Heartbeat
    <3> QED BY <1>0, <3>1, <3>2, <3>3 DEF Move
  <2>7. CASE HeartbeatLost(i)
    <3>1. /\ row'.known = row.known /\ row'.token = row.token
          /\ row'.age \in {row.age, "fresh"}
      BY <1>h, <2>7 DEF HeartbeatLost
    <3> QED BY <1>0, <3>1, <2>7 DEF HeartbeatLost, Move, Connector
  <2> QED BY <1>1, <2>1, <2>2, <2>3, <2>4, <2>5, <2>6, <2>7 DEF Connect
<1>2. ASSUME NEW i \in Instances, Start(i) \/ Exit(i) PROVE OwnerInv'
  BY <1>0, <1>2 DEF Start, Exit, Move, Idle
<1>3. ASSUME NEW i \in Instances, Sleep(i) \/ Wake(i) PROVE OwnerInv'
  BY <1>0, <1>3 DEF Sleep, Wake, Steady
<1>4. CASE Tick
  <2>1. row'.known = row.known /\ row'.token = row.token
    BY <1>0, <1>4 DEF Tick, Row
  <2>2. ASSUME NEW i \in Instances, Owner(i) PROVE row'.age # "gone"
    BY <1>0, <1>4, <2>2 DEF Tick, Beating, Up, Steady, Row
  <2> QED BY <1>0, <1>4, <2>1, <2>2 DEF Tick
<1>5. CASE Check \/ CheckWrite
  <2>1. row'.known = row.known /\ row'.token = row.token /\ row'.age = row.age
    BY <1>0, <1>5 DEF Check, CheckWrite, Row
  <2> QED BY <1>5, <2>1 DEF Check, CheckWrite
<1>6. CASE MainRestart
  BY <1>6 DEF MainRestart, Steady
<1>7. CASE \E s \in {"well", "ill", "silent"} : Condition(s)
  BY <1>7 DEF Condition
<1>8. CASE \E c \in Probed : ProbeFlips(c)
  BY <1>8 DEF ProbeFlips
<1>9. CASE UNCHANGED vars
  BY <1>9 DEF vars
<1> QED BY <1>1, <1>2, <1>3, <1>4, <1>5, <1>6, <1>7, <1>8, <1>9 DEF Next

(* #899: in a steady fleet of token-sending workers no two processes are   *)
(* ever registered under one node id, whatever requests and answers are    *)
(* lost and whoever dies or starts.                                        *)
THEOREM OwnerSafety == Steady /\ Spec => []OneOwner
<1>1. Init => OwnerInv
  BY DEF Init, OwnerInv, Placed, OwnerOnRow, OwnerBeats, RowNamed, Owner, NoRow, Idle
<1>2. OwnerInv => OneOwner
  BY DEF OwnerInv, OwnerOnRow, OneOwner
<1>3. Steady => Steady'
  BY DEF Steady
<1> QED BY <1>1, <1>2, <1>3, OwnerStep, NodeTypeCorrect, PTL DEF Spec
=============================================================================
