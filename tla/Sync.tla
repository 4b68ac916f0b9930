-------------------------------- MODULE Sync --------------------------------
(***************************************************************************)
(* Federation sync (sync/__init__.py, sync/router.py, routers/sync.py and  *)
(* the stores' handle_sync_message): each node queues events about its     *)
(* tasks and pushes them, and now and then a snapshot, to its peer.  Calls *)
(* are retried, may be lost before or after they took effect, and a copy   *)
(* of a message may arrive again, late, by the receive endpoints.          *)
(*                                                                         *)
(* syStore says which store a behaviour runs on: SQLite and Postgres apply *)
(* a message alike; the in-memory one also compares task versions.         *)
(* Snapshots of nodes, and titles, are left out.                           *)
(***************************************************************************)
EXTENDS Naturals, Sequences

CONSTANTS
    SyNodes,    \* two nodes
    SyTasks,
    SyTries,    \* max_retries of SyncClient (it counts attempts)
    SyEvents    \* bound on local changes, snapshots and late copies

ASSUME SyAssumption ==
    /\ \E n, m \in SyNodes : n # m /\ SyNodes = {n, m}
    /\ {SyTries, SyEvents} \subseteq Nat

VARIABLES
    syStore,    \* "sql" or "memory"
    syRow,      \* task rows of each node: status and version
    syVer,      \* sync_version of each node
    syQueue,    \* _pending_messages of each coordinator
    syOut,      \* the call each coordinator is making
    syWire,     \* messages that were ever sent to a node
    sySeen,     \* messages each node has applied, in order
    syCount

syVars == <<syStore, syRow, syVer, syQueue, syOut, syWire, sySeen, syCount>>

SyTerminal == {"completed", "cancelled"}
SyAbsent == [st |-> "none", tv |-> 0]
SyQuiet == [kind |-> "none", body |-> <<>>, tries |-> 0]
SyPeer(n) == CHOOSE m \in SyNodes : m # n

SyInit ==
    /\ syStore \in {"sql", "memory"}
    /\ syRow = [n \in SyNodes |-> [t \in SyTasks |-> SyAbsent]]
    /\ syVer = [n \in SyNodes |-> 0]
    /\ syQueue = [n \in SyNodes |-> <<>>]
    /\ syOut = [n \in SyNodes |-> SyQuiet]
    /\ syWire = [n \in SyNodes |-> {}]
    /\ sySeen = [n \in SyNodes |-> <<>>]
    /\ syCount = 0

SyCall == syCount < SyEvents /\ syCount' = syCount + 1

(* set_task_status of the two stores; create_task of the two stores. *)
SySetStatus(row, s) ==
    IF syStore = "memory" /\ row.st \in SyTerminal THEN row ELSE [st |-> s, tv |-> row.tv + 1]

SyCreated == [st |-> IF syStore = "memory" THEN "pending" ELSE "ready", tv |-> 1]

----------------------------------------------------------------------------
(* The sender *)

(* A task changes at n, which queues the event with the version after the  *)
(* one its own log has reached.                                            *)
queue_task_event(n, t, s) ==
    LET old == syRow[n][t]
        new == IF old = SyAbsent THEN SyCreated ELSE SySetStatus(old, s)
    IN  /\ new # old
        /\ syRow' = [syRow EXCEPT ![n][t] = new]
        /\ syQueue' = [syQueue EXCEPT ![n] = Append(@,
              [id |-> <<n, syCount>>, ver |-> syVer[n] + 1, task |-> t, st |-> new.st, tv |-> new.tv])]
        /\ SyCall
        /\ UNCHANGED <<syStore, syVer, syOut, syWire, sySeen>>

(* _do_delta_sync drains the queue before the first attempt. *)
_do_delta_sync(n) ==
    /\ syOut[n] = SyQuiet /\ syQueue[n] # <<>>
    /\ syOut' = [syOut EXCEPT ![n] = [kind |-> "batch", body |-> syQueue[n], tries |-> 0]]
    /\ syQueue' = [syQueue EXCEPT ![n] = <<>>]
    /\ syWire' = [syWire EXCEPT ![SyPeer(n)] = @ \cup {syQueue[n][i] : i \in DOMAIN syQueue[n]}]
    /\ UNCHANGED <<syStore, syRow, syVer, sySeen, syCount>>

_do_full_sync(n) ==
    /\ syOut[n] = SyQuiet
    /\ syOut' = [syOut EXCEPT ![n] = [kind |-> "full", body |-> syRow[n], tries |-> 0]]
    /\ SyCall
    /\ UNCHANGED <<syStore, syRow, syVer, syQueue, syWire, sySeen>>

----------------------------------------------------------------------------
(* The receiver: rows, log version and applied messages after a message *)
SyHere(n) == [row |-> syRow[n], ver |-> syVer[n], seen |-> sySeen[n]]

SyMerged(row, m) ==
    CASE syStore = "sql" \/ row = SyAbsent -> [st |-> m.st, tv |-> m.tv]
      [] m.tv <= row.tv \/ row.st \in SyTerminal -> row
      [] OTHER -> [st |-> m.st, tv |-> IF m.tv > row.tv + 1 THEN m.tv ELSE row.tv + 1]

SyApplied(h, m) ==
    [row |-> [h.row EXCEPT ![m.task] = SyMerged(@, m)], ver |-> m.ver, seen |-> Append(h.seen, m.id)]

(* Mutant: the version check is left to the receiver of batches. *)
Mut_handle_sync_message(h, m) == SyApplied(h, m)

handle_sync_message(h, m) ==
    IF m.ver <= h.ver THEN h ELSE SyApplied(h, m)

(* The batch endpoint checks the version before the store does. *)
receive_single(h, m) == IF m.ver <= h.ver THEN h ELSE handle_sync_message(h, m)

(* What h has become after the first i messages. *)
receive_batch(h, msgs) ==
    LET after[i \in 0..Len(msgs)] ==
            IF i = 0 THEN h ELSE receive_single(after[i - 1], msgs[i])
    IN  after[Len(msgs)]

(* Mutant: a snapshot's rows are written as they are. *)
Mut_receive_full_state(h, rows) ==
    [h EXCEPT !.row = [t \in SyTasks |->
        IF rows[t] = SyAbsent THEN @[t]
        ELSE IF @[t] = SyAbsent
        THEN IF rows[t].st = "pending" THEN SyCreated ELSE SySetStatus(SyCreated, rows[t].st)
        ELSE rows[t]]]

(* A snapshot creates the tasks that are missing and sets the status of    *)
(* those whose version is behind, which counts as a change of its own.     *)
receive_full_state(h, rows) ==
    [h EXCEPT !.row = [t \in SyTasks |->
        IF rows[t] = SyAbsent THEN @[t]
        ELSE IF @[t] = SyAbsent
        THEN IF rows[t].st = "pending" THEN SyCreated ELSE SySetStatus(SyCreated, rows[t].st)
        ELSE IF rows[t].tv > @[t].tv THEN SySetStatus(@[t], rows[t].st)
        ELSE @[t]]]

SyLands(n, h) ==
    /\ syRow' = [syRow EXCEPT ![n] = h.row]
    /\ syVer' = [syVer EXCEPT ![n] = h.ver]
    /\ sySeen' = [sySeen EXCEPT ![n] = h.seen]

(* One attempt of send_batch or send_full_state: it may fail before or     *)
(* after the peer has handled it; the last failure drops the body.         *)
send(n, lands, answered) ==
    LET out == syOut[n]
        here == SyHere(SyPeer(n))
    IN  /\ out # SyQuiet
        /\ SyLands(SyPeer(n), IF ~lands THEN here
                              ELSE IF out.kind = "batch" THEN receive_batch(here, out.body)
                              ELSE receive_full_state(here, out.body))
        /\ syOut' = [syOut EXCEPT ![n] =
              IF (lands /\ answered) \/ out.tries + 1 = SyTries THEN SyQuiet
              ELSE [out EXCEPT !.tries = @ + 1]]
        /\ UNCHANGED <<syStore, syQueue, syWire, syCount>>

(* /receive and /receive-batch: a copy of a message arrives again. *)
sync_receive(n, m) ==
    /\ SyLands(n, handle_sync_message(SyHere(n), m))
    /\ SyCall
    /\ UNCHANGED <<syStore, syQueue, syOut, syWire>>

SyNext ==
    \E n \in SyNodes :
        \/ \E t \in SyTasks, s \in {"ready", "running"} \cup SyTerminal : queue_task_event(n, t, s)
        \/ _do_delta_sync(n) \/ _do_full_sync(n)
        \/ \E lands, answered \in BOOLEAN : send(n, lands, answered)
        \/ \E m \in syWire[n] : sync_receive(n, m)

SySpec == SyInit /\ [][SyNext]_syVars

----------------------------------------------------------------------------
(* Retries after a lost answer, late copies and copies by another endpoint *)
(* never apply a message twice.                                            *)
SyAppliedOnce ==
    \A n \in SyNodes : \A i, j \in DOMAIN sySeen[n] : sySeen[n][i] = sySeen[n][j] => i = j

(* On the in-memory store what a peer sends never takes a task back: a     *)
(* task that ended stays ended and its version only grows.                 *)
SyNeverBack ==
    [][syStore = "memory" =>
        \A n \in SyNodes, t \in SyTasks :
            /\ syRow[n][t].st \in SyTerminal => syRow'[n][t].st = syRow[n][t].st
            /\ syRow'[n][t].tv >= syRow[n][t].tv]_syVars
=============================================================================
